---- MODULE Spec2Model ----
(***************************************************************************)
(* Verification model of the AI-Enhanced Snake Game:                       *)
(*   - DifficultyManager   (src/js/ai/DifficultyManager.js)                *)
(*   - PathfindingEngine   (src/js/ai/HintSystem.js)                       *)
(*   - DangerPredictor     (src/js/ai/HintSystem.js)                       *)
(*   - Snake, Food         (src/js/entities)                               *)
(*   - GameEngine, InputManager (src/unnamed/part_001)                     *)
(*   - UIManager           (src/js/ui/UIManager.js)                        *)
(*                                                                         *)
(* The specifications share the variables of this module:                  *)
(*   SpecDM  the DifficultyManager as a state machine over its operations  *)
(*   SpecPF  PathfindingEngine.findPath / getFallbackSuggestions applied   *)
(*           to inputs drawn from bounded sets                             *)
(*   SpecDP  DangerPredictor.analyze / getSafestDirection applied to       *)
(*           inputs drawn from bounded sets                                *)
(*   SpecSnake  a Snake driven call by call                                *)
(*   SpecGE  the GameEngine with its InputManager, Snake and Food          *)
(*   SpecUI  the UIManager's persistent statistics over localStorage       *)
(*   SpecDMCalls  the DifficultyManager with a record of its last call     *)
(***************************************************************************)
EXTENDS Integers, Sequences, FiniteSets, TLC

VARIABLES
    \* ---- DifficultyManager ----
    currentSpeed,            \* this.currentSpeed (ms per move)
    performanceHistory,      \* this.performanceHistory
    consecutiveSuccesses,    \* this.consecutiveSuccesses
    recentDeaths,            \* this.recentDeaths
    foodCollectionTimes,     \* this.foodCollectionTimes, kept as [total, n]
    store,                   \* localStorage['snakeDifficultyData']
    trail,                   \* history variable: the current run of identical triggers
    \* ---- PathfindingEngine / DangerPredictor ----
    boardWidth,              \* this.boardWidth
    boardHeight,             \* this.boardHeight
    pfIn,                    \* arguments of the pathfinding call
    pfOut,                   \* what the pathfinding call returned
    dpIn,                    \* arguments of DangerPredictor.analyze
    enabled,                 \* DangerPredictor.enabled
    dangerZones,             \* DangerPredictor.dangerZones
    dpOut,                   \* what getSafestDirection returned
    \* ---- Snake ----
    snake,                   \* [body, direction, nextDirection, alive]
    snakeCalls,              \* history variable: the last calls on the snake
    \* ---- GameEngine / InputManager / Food ----
    gridWidth,               \* GameEngine.gridWidth
    gridHeight,              \* GameEngine.gridHeight
    food,                    \* Food.position
    gameState,               \* GameEngine.gameState
    gameScore,               \* GameEngine.score
    directionQueue,          \* InputManager.directionQueue
    currentDirection,        \* InputManager.currentDirection
    lastInputTime,           \* InputManager.lastInputTime: 0, or 1 for a time stamp
    game,                    \* history variable: moves and endings of the current game
    \* ---- UIManager ----
    highScore,               \* UIManager.highScore
    gameOverScreen,          \* UIManager.gameOverScreen is set
    storage,                 \* localStorage: snakeHighScore and snakeGameData
    recorded,                \* history variable: scores recorded since the last clearing
    \* ---- DifficultyManager, call by call ----
    call                     \* history variable: the last call and the state before it

dmVars == <<currentSpeed, performanceHistory, consecutiveSuccesses, recentDeaths,
            foodCollectionTimes, store, trail>>
gridVars == <<boardWidth, boardHeight, pfIn, pfOut, dpIn, enabled, dangerZones, dpOut>>
snakeVars == <<snake, snakeCalls>>
engineVars == <<gridWidth, gridHeight, food, gameState, gameScore, directionQueue,
                currentDirection, lastInputTime, game>>
uiVars == <<highScore, gameOverScreen, storage, recorded>>
appVars == <<snakeVars, engineVars, uiVars, call>>
vars == <<currentSpeed, performanceHistory, consecutiveSuccesses, recentDeaths,
          foodCollectionTimes, store, trail,
          boardWidth, boardHeight, pfIn, pfOut, dpIn, enabled, dangerZones, dpOut,
          snake, snakeCalls,
          gridWidth, gridHeight, food, gameState, gameScore, directionQueue,
          currentDirection, lastInputTime, game,
          highScore, gameOverScreen, storage, recorded, call>>

\* The parts of the application a specification does not exercise stay as
\* they are before the page constructs them.
SnakeIdle == snake = <<>> /\ snakeCalls = <<>>
EngineIdle ==
    /\ gridWidth = 0 /\ gridHeight = 0 /\ food = <<>> /\ gameState = "stopped"
    /\ gameScore = 0 /\ directionQueue = <<>> /\ currentDirection = "right"
    /\ lastInputTime = 0 /\ game = <<>>
UIIdle == highScore = 0 /\ gameOverScreen = FALSE /\ storage = <<>> /\ recorded = <<>>
AppIdle == SnakeIdle /\ EngineIdle /\ UIIdle /\ call = <<>>

Min(a, b) == IF a <= b THEN a ELSE b
Max(a, b) == IF a >= b THEN a ELSE b
Abs(a) == IF a < 0 THEN -a ELSE a

(***************************************************************************)
(*                          DifficultyManager                              *)
(***************************************************************************)

\* Configuration set by the constructor.
baseSpeed == 150
minSpeed == 50
maxSpeed == 300
maxHistoryLength == 10
speedIncreaseThreshold == 3
speedDecreaseThreshold == 2
speedAdjustmentAmount == 15

\* Thresholds of analyzePerformanceAndAdjust.
LowScore == 50
LowSurvival == 10000
GoodScore == 100
GoodSurvival == 30000
FastCollection == 3000

\* ---- bounds of the DifficultyManager model ----
\* recordGameEnd is explored while the history holds fewer than MaxGames samples
MaxGames == 2
\* recordFoodCollection is explored while fewer than MaxFood intervals are recorded
MaxFood == 3
\* the trail remembers at most this many consecutive triggers
TrailLen == 3

\* Inputs of the operations.
Scores == {20, 150}
Survivals == {5000, 40000}
FoodIntervals == {1000, 5000}
SetSpeedInputs == {40, 155, 310}

\* A PerformanceSample; only score and survivalTime are ever read back by
\* DifficultyManager (length, foodCollected, averageCollectionTime, finalSpeed
\* and timestamp are written and never read), so the sample keeps those two.
Sample(score, survivalTime) == [score |-> score, survivalTime |-> survivalTime]

\* A JSON value found under a snapshot key: a number, or something that is
\* not a number (missing, null, a string ...).
Num(v) == [num |-> TRUE, val |-> v]
NotNum == [num |-> FALSE, val |-> 0]
\* A JSON value found under performanceHistory: an array, or not.
Arr(s) == [arr |-> TRUE, items |-> s]
NotArr == [arr |-> FALSE, items |-> <<>>]

Snapshot(speed, hist, cs, rd) ==
    [kind |-> "json", currentSpeed |-> speed, performanceHistory |-> hist,
     consecutiveSuccesses |-> cs, recentDeaths |-> rd]
Absent == [kind |-> "absent"]
Corrupt == [kind |-> "corrupt"]

\* Snapshots a browser may hold when the manager is constructed.
StoredSpeeds == {NotNum, Num(0), Num(40), Num(50), Num(300), Num(310)}
StoredHistories == {NotArr, Arr(<<>>), Arr(<<Sample(150, 40000)>>)}
StoredSuccesses == {NotNum, Num(-1), Num(2), Num(5)}
StoredDeaths == {NotNum, Num(-1), Num(1), Num(7)}
InitialStores ==
    {Absent, Corrupt} \cup
    {Snapshot(s, h, c, d) : s \in StoredSpeeds, h \in StoredHistories,
                            c \in StoredSuccesses, d \in StoredDeaths}

\* Array.prototype.slice(-n)
SliceLast(s, n) == IF Len(s) <= n THEN s ELSE SubSeq(s, Len(s) - n + 1, Len(s))

RECURSIVE SumScore(_)
SumScore(s) == IF s = <<>> THEN 0 ELSE Head(s).score + SumScore(Tail(s))

RECURSIVE SumSurvival(_)
SumSurvival(s) == IF s = <<>> THEN 0 ELSE Head(s).survivalTime + SumSurvival(Tail(s))

\* increaseDifficulty without the Math.max clamp
increaseDifficulty_NoClamp(speed) == speed - speedAdjustmentAmount

\* increaseDifficulty: a faster game is a smaller delay.
increaseDifficulty(speed) == Max(minSpeed, speed - speedAdjustmentAmount)

\* decreaseDifficulty without the clamp to maxSpeed
decreaseDifficulty_NoClamp(speed) == speed + speedAdjustmentAmount

\* decreaseDifficulty
decreaseDifficulty(speed) == Min(maxSpeed, speed + speedAdjustmentAmount)

\* loadPerformanceData that discards the whole snapshot when one field is invalid
loadPerformanceData_AllOrNothing(st, speed, hist, cs, rd) ==
    IF st.kind # "json"
    THEN [speed |-> speed, hist |-> hist, cs |-> cs, rd |-> rd]
    ELSE IF /\ st.currentSpeed.num /\ st.currentSpeed.val >= minSpeed
            /\ st.currentSpeed.val <= maxSpeed
            /\ st.performanceHistory.arr
            /\ st.consecutiveSuccesses.num /\ st.consecutiveSuccesses.val >= 0
            /\ st.recentDeaths.num /\ st.recentDeaths.val >= 0
         THEN [speed |-> st.currentSpeed.val,
               hist  |-> SliceLast(st.performanceHistory.items, maxHistoryLength),
               cs    |-> Min(st.consecutiveSuccesses.val, speedIncreaseThreshold),
               rd    |-> Min(st.recentDeaths.val, speedDecreaseThreshold)]
         ELSE [speed |-> speed, hist |-> hist, cs |-> cs, rd |-> rd]

\* The four fields loadPerformanceData leaves, given the fields before it.
loadPerformanceData(st, speed, hist, cs, rd) ==
    IF st.kind # "json"
    THEN [speed |-> speed, hist |-> hist, cs |-> cs, rd |-> rd]
    ELSE [speed |-> IF st.currentSpeed.num /\ st.currentSpeed.val # 0
                       /\ st.currentSpeed.val >= minSpeed
                       /\ st.currentSpeed.val <= maxSpeed
                    THEN st.currentSpeed.val ELSE speed,
          hist  |-> IF st.performanceHistory.arr
                    THEN SliceLast(st.performanceHistory.items, maxHistoryLength)
                    ELSE hist,
          cs    |-> IF st.consecutiveSuccesses.num /\ st.consecutiveSuccesses.val >= 0
                    THEN Min(st.consecutiveSuccesses.val, speedIncreaseThreshold)
                    ELSE cs,
          rd    |-> IF st.recentDeaths.num /\ st.recentDeaths.val >= 0
                    THEN Min(st.recentDeaths.val, speedDecreaseThreshold)
                    ELSE rd]

\* What savePerformanceData writes.
\* savePerformanceData that leaves the death counter out of the snapshot
savePerformanceData_OmitsDeaths(speed, hist, cs, rd) ==
    Snapshot(Num(speed), Arr(hist), Num(cs), NotNum)

savePerformanceData(speed, hist, cs, rd) ==
    Snapshot(Num(speed), Arr(hist), Num(cs), Num(rd))

\* The state a constructor call leaves over a given store.
Constructed(st) == loadPerformanceData(st, baseSpeed, <<>>, 0, 0)

\* calculateAverageCollectionTime() < 3000, the average being total / n (0 if n = 0)
FastAverage(fct) == IF fct.n = 0 THEN 0 < FastCollection
                    ELSE fct.total < FastCollection * fct.n

\* analyzePerformanceAndAdjust that waits for a third game before comparing
analyzePerformanceAndAdjust_ThreeGames(speed, hist, rd, fct) ==
    IF Len(hist) < 3 THEN [speed |-> speed, rd |-> rd]
    ELSE IF \/ SumScore(SliceLast(hist, 3)) < LowScore * 3
            \/ SumSurvival(SliceLast(hist, 3)) < LowSurvival * 3
            \/ rd >= speedDecreaseThreshold
         THEN [speed |-> decreaseDifficulty(speed), rd |-> 0]
         ELSE [speed |-> speed, rd |-> rd]

\* analyzePerformanceAndAdjust, on the history after the append and the
\* death counter after its increment: the speed and death counter it leaves.
analyzePerformanceAndAdjust(speed, hist, rd, fct) ==
    IF Len(hist) < 2 THEN [speed |-> speed, rd |-> rd]
    ELSE LET recentGames == SliceLast(hist, 3)
             n == Len(recentGames)
             isStruggling == \/ SumScore(recentGames) < LowScore * n
                             \/ SumSurvival(recentGames) < LowSurvival * n
                             \/ rd >= speedDecreaseThreshold
             isPerformingWell == /\ SumScore(recentGames) > GoodScore * n
                                 /\ SumSurvival(recentGames) > GoodSurvival * n
                                 /\ FastAverage(fct)
         IN IF isStruggling THEN [speed |-> decreaseDifficulty(speed), rd |-> 0]
            ELSE IF isPerformingWell /\ rd = 0
                 THEN [speed |-> increaseDifficulty(speed), rd |-> rd]
                 ELSE [speed |-> speed, rd |-> rd]

\* The trail after one more trigger `op`, taken in the state before it.
Extend(op, score) ==
    LET e == [op |-> op, speed |-> currentSpeed, cs |-> consecutiveSuccesses,
              rd |-> recentDeaths, hlen |-> Len(performanceHistory), score |-> score]
        same == IF trail # <<>> /\ trail[1].op = op THEN trail ELSE <<>>
    IN SliceLast(Append(same, e), TrailLen)

InitDM ==
    /\ store \in InitialStores
    /\ LET c == Constructed(store)
       IN /\ currentSpeed = c.speed
          /\ performanceHistory = c.hist
          /\ consecutiveSuccesses = c.cs
          /\ recentDeaths = c.rd
    /\ foodCollectionTimes = [total |-> 0, n |-> 0]
    /\ trail = <<>>
    /\ boardWidth = 0 /\ boardHeight = 0
    /\ pfIn = <<>> /\ pfOut = <<>>
    /\ dpIn = <<>> /\ enabled = TRUE /\ dangerZones = <<>> /\ dpOut = <<>>
    /\ AppIdle

\* new DifficultyManager() over the current store (a page reload)
Construct ==
    /\ LET c == Constructed(store)
       IN /\ currentSpeed' = c.speed
          /\ performanceHistory' = c.hist
          /\ consecutiveSuccesses' = c.cs
          /\ recentDeaths' = c.rd
    /\ foodCollectionTimes' = [total |-> 0, n |-> 0]
    /\ trail' = <<>>
    /\ UNCHANGED <<store>>
    /\ UNCHANGED <<gridVars, appVars>>

initializeGame ==
    /\ foodCollectionTimes' = [total |-> 0, n |-> 0]
    /\ currentSpeed' = IF Len(performanceHistory) = 0 THEN baseSpeed ELSE currentSpeed
    /\ trail' = <<>>
    /\ UNCHANGED <<performanceHistory, consecutiveSuccesses, recentDeaths, store>>
    /\ UNCHANGED <<gridVars, appVars>>

\* recordFoodCollection comparing the counter with > instead of >=
recordFoodCollection_OffByOne ==
    /\ foodCollectionTimes.n < MaxFood
    /\ \E timeSinceLastFood \in FoodIntervals :
          foodCollectionTimes' = [total |-> foodCollectionTimes.total + timeSinceLastFood,
                                  n |-> foodCollectionTimes.n + 1]
    /\ IF consecutiveSuccesses + 1 > speedIncreaseThreshold
       THEN /\ currentSpeed' = increaseDifficulty(currentSpeed)
            /\ consecutiveSuccesses' = 0
            /\ store' = savePerformanceData(currentSpeed', performanceHistory,
                                            0, recentDeaths)
       ELSE /\ consecutiveSuccesses' = consecutiveSuccesses + 1
            /\ UNCHANGED <<currentSpeed, store>>
    /\ trail' = Extend("food", 0)
    /\ UNCHANGED <<performanceHistory, recentDeaths>>
    /\ UNCHANGED <<gridVars, appVars>>

recordFoodCollection ==
    /\ foodCollectionTimes.n < MaxFood
    /\ \E timeSinceLastFood \in FoodIntervals :
          foodCollectionTimes' = [total |-> foodCollectionTimes.total + timeSinceLastFood,
                                  n |-> foodCollectionTimes.n + 1]
    /\ IF consecutiveSuccesses + 1 >= speedIncreaseThreshold
       THEN /\ currentSpeed' = increaseDifficulty(currentSpeed)
            /\ consecutiveSuccesses' = 0
            /\ store' = savePerformanceData(currentSpeed', performanceHistory,
                                            0, recentDeaths)
       ELSE /\ consecutiveSuccesses' = consecutiveSuccesses + 1
            /\ UNCHANGED <<currentSpeed, store>>
    /\ trail' = Extend("food", 0)
    /\ UNCHANGED <<performanceHistory, recentDeaths>>
    /\ UNCHANGED <<gridVars, appVars>>

recordGameEnd ==
    /\ Len(performanceHistory) < MaxGames
    /\ \E score \in Scores, survivalTime \in Survivals :
          LET pushed == Append(performanceHistory, Sample(score, survivalTime))
              hist == IF Len(pushed) > maxHistoryLength THEN Tail(pushed) ELSE pushed
              a == analyzePerformanceAndAdjust(currentSpeed, hist, recentDeaths + 1,
                                               foodCollectionTimes)
          IN /\ performanceHistory' = hist
             /\ consecutiveSuccesses' = 0
             /\ currentSpeed' = a.speed
             /\ recentDeaths' = a.rd
             /\ store' = savePerformanceData(a.speed, hist, 0, a.rd)
             /\ trail' = Extend("end", score)
    /\ UNCHANGED <<foodCollectionTimes>>
    /\ UNCHANGED <<gridVars, appVars>>

setSpeed ==
    /\ \E speed \in SetSpeedInputs :
          currentSpeed' = Max(minSpeed, Min(maxSpeed, speed))
    /\ trail' = <<>>
    /\ UNCHANGED <<performanceHistory, consecutiveSuccesses, recentDeaths,
                   foodCollectionTimes, store>>
    /\ UNCHANGED <<gridVars, appVars>>

resetDifficulty ==
    /\ currentSpeed' = baseSpeed
    /\ consecutiveSuccesses' = 0
    /\ recentDeaths' = 0
    /\ performanceHistory' = <<>>
    /\ store' = savePerformanceData(baseSpeed, <<>>, 0, 0)
    /\ trail' = <<>>
    /\ UNCHANGED <<foodCollectionTimes>>
    /\ UNCHANGED <<gridVars, appVars>>

clearSavedData ==
    /\ store' = Absent
    /\ trail' = <<>>
    /\ UNCHANGED <<currentSpeed, performanceHistory, consecutiveSuccesses, recentDeaths,
                   foodCollectionTimes>>
    /\ UNCHANGED <<gridVars, appVars>>

NextDM ==
    \/ Construct
    \/ initializeGame
    \/ recordFoodCollection
    \/ recordGameEnd
    \/ setSpeed
    \/ resetDifficulty
    \/ clearSavedData

SpecDM == InitDM /\ [][NextDM]_vars

(***************************************************************************)
(*                           PathfindingEngine                             *)
(***************************************************************************)

\* ---- bounds of the grid models ----
\* boards of 1..MaxWidth by 1..MaxHeight cells
MaxWidth == 3
MaxHeight == 3
\* at most this many obstacle cells
MaxObstacles == 2

\* A position {x, y} is the pair <<x, y>>.
Cells == (0 .. boardWidth - 1) \X (0 .. boardHeight - 1)
\* Some positions off each edge of the board.
OutOfBounds == {<<-1, 0>>, <<boardWidth, 0>>, <<0, -1>>, <<0, boardHeight>>}

\* isValidPosition (the same test in PathfindingEngine and DangerPredictor)
isValidPosition(pos) ==
    pos[1] >= 0 /\ pos[1] < boardWidth /\ pos[2] >= 0 /\ pos[2] < boardHeight

\* The direction tables of the source, always in the order up, down, left, right.
Directions == <<"up", "down", "left", "right">>
Delta(dir) == CASE dir = "up"    -> <<0, -1>>
                [] dir = "down"  -> <<0, 1>>
                [] dir = "left"  -> <<-1, 0>>
                [] dir = "right" -> <<1, 0>>

\* getMovePosition
getMovePosition(position, direction) ==
    <<position[1] + Delta(direction)[1], position[2] + Delta(direction)[2]>>

\* The four neighbours of a position, in table order.
Around(position) == [i \in 1 .. 4 |-> getMovePosition(position, Directions[i])]

\* getNeighbors that forgets the last row of its table ("right")
getNeighbors_NoRight(position) ==
    SelectSeq(SubSeq(Around(position), 1, 3), isValidPosition)

\* getNeighbors: the in-bounds neighbours, in table order
getNeighbors(position) == SelectSeq(Around(position), isValidPosition)

\* heuristic: Manhattan distance
heuristic(pos1, pos2) == Abs(pos1[1] - pos2[1]) + Abs(pos1[2] - pos2[2])

\* Map.set
MapSet(m, k, v) == (k :> v) @@ m

\* reconstructPath
RECURSIVE reconstructPath(_, _)
reconstructPath(cameFrom, current) ==
    IF current \in DOMAIN cameFrom
    THEN reconstructPath(cameFrom, cameFrom[current]) \o <<current>>
    ELSE <<current>>

\* The scan of findPath with the comparison turned round (highest fScore)
RECURSIVE LowestIndex_Highest(_, _, _, _)
LowestIndex_Highest(openSet, fScore, i, currentIndex) ==
    IF i > Len(openSet) THEN currentIndex
    ELSE IF fScore[openSet[i]] > fScore[openSet[currentIndex]]
         THEN LowestIndex_Highest(openSet, fScore, i + 1, i)
         ELSE LowestIndex_Highest(openSet, fScore, i + 1, currentIndex)

\* The scan of findPath moving on to a later node with an equal fScore (<=)
RECURSIVE LowestIndex_LastOnTies(_, _, _, _)
LowestIndex_LastOnTies(openSet, fScore, i, currentIndex) ==
    IF i > Len(openSet) THEN currentIndex
    ELSE IF fScore[openSet[i]] <= fScore[openSet[currentIndex]]
         THEN LowestIndex_LastOnTies(openSet, fScore, i + 1, i)
         ELSE LowestIndex_LastOnTies(openSet, fScore, i + 1, currentIndex)

\* The scan of findPath for the open node with the lowest fScore: the index
\* moves only on a strictly lower score.
RECURSIVE LowestIndex(_, _, _, _)
LowestIndex(openSet, fScore, i, currentIndex) ==
    IF i > Len(openSet) THEN currentIndex
    ELSE IF fScore[openSet[i]] < fScore[openSet[currentIndex]]
         THEN LowestIndex(openSet, fScore, i + 1, i)
         ELSE LowestIndex(openSet, fScore, i + 1, currentIndex)

\* Array.prototype.splice(i, 1)
RemoveAt(s, i) == SubSeq(s, 1, i - 1) \o SubSeq(s, i + 1, Len(s))

InSeq(s, x) == \E i \in 1 .. Len(s) : s[i] = x

\* The neighbour loop of findPath that does not skip obstacle cells
RECURSIVE CheckNeighbors_IgnoreObstacles(_, _, _, _, _, _)
CheckNeighbors_IgnoreObstacles(neighbors, current, target, closedSet, obstacleSet, st) ==
    IF neighbors = <<>> THEN st
    ELSE
      LET neighbor == Head(neighbors)
          rest == Tail(neighbors)
      IN IF neighbor \in closedSet
         THEN CheckNeighbors_IgnoreObstacles(rest, current, target, closedSet,
                                             obstacleSet, st)
         ELSE
           LET tentativeGScore == st.gScore[current] + 1
               open1 == IF InSeq(st.openSet, neighbor) THEN st.openSet
                        ELSE Append(st.openSet, neighbor)
           IN IF neighbor \in DOMAIN st.gScore /\ tentativeGScore >= st.gScore[neighbor]
              THEN CheckNeighbors_IgnoreObstacles(rest, current, target, closedSet,
                       obstacleSet, [st EXCEPT !.openSet = open1])
              ELSE CheckNeighbors_IgnoreObstacles(rest, current, target, closedSet,
                       obstacleSet,
                       [openSet  |-> open1,
                        cameFrom |-> MapSet(st.cameFrom, neighbor, current),
                        gScore   |-> MapSet(st.gScore, neighbor, tentativeGScore),
                        fScore   |-> MapSet(st.fScore, neighbor,
                                       tentativeGScore + heuristic(neighbor, target))])

\* The neighbour loop of findPath ("Check all neighbors")
RECURSIVE CheckNeighbors(_, _, _, _, _, _)
CheckNeighbors(neighbors, current, target, closedSet, obstacleSet, st) ==
    IF neighbors = <<>> THEN st
    ELSE
      LET neighbor == Head(neighbors)
          rest == Tail(neighbors)
      IN IF neighbor \in closedSet \/ neighbor \in obstacleSet
         THEN CheckNeighbors(rest, current, target, closedSet, obstacleSet, st)
         ELSE
           LET tentativeGScore == st.gScore[current] + 1
               open1 == IF InSeq(st.openSet, neighbor) THEN st.openSet
                        ELSE Append(st.openSet, neighbor)
           IN IF neighbor \in DOMAIN st.gScore /\ tentativeGScore >= st.gScore[neighbor]
              THEN CheckNeighbors(rest, current, target, closedSet, obstacleSet,
                                  [st EXCEPT !.openSet = open1])
              ELSE CheckNeighbors(rest, current, target, closedSet, obstacleSet,
                       [openSet  |-> open1,
                        cameFrom |-> MapSet(st.cameFrom, neighbor, current),
                        gScore   |-> MapSet(st.gScore, neighbor, tentativeGScore),
                        fScore   |-> MapSet(st.fScore, neighbor,
                                       tentativeGScore + heuristic(neighbor, target))])

NotFound == [found |-> FALSE, path |-> <<>>]
Found(path) == [found |-> TRUE, path |-> path]

\* A result of findPath together with the iterations of its while loop: for
\* each one the open set and the fScore map it scanned and the node it chose.
Logged(result, steps) ==
    [found |-> result.found, path |-> result.path, steps |-> steps]

\* The while loop of findPath
RECURSIVE Search(_, _, _, _, _)
Search(target, obstacleSet, closedSet, st, steps) ==
    IF st.openSet = <<>> THEN Logged(NotFound, steps)
    ELSE
      LET currentIndex == LowestIndex(st.openSet, st.fScore, 2, 1)
          current == st.openSet[currentIndex]
          closed1 == closedSet \cup {current}
          st1 == [st EXCEPT !.openSet = RemoveAt(st.openSet, currentIndex)]
          steps1 == Append(steps, [openSet |-> st.openSet, fScore |-> st.fScore,
                                   current |-> current])
      IN IF current = target
         THEN Logged(Found(reconstructPath(st.cameFrom, current)), steps1)
         ELSE Search(target, obstacleSet, closed1,
                     CheckNeighbors(getNeighbors(current), current, target,
                                    closed1, obstacleSet, st1),
                     steps1)

\* findPath; the obstacle list is used only through the set of its keys
findPath(start, target, obstacles) ==
    IF ~isValidPosition(start) \/ ~isValidPosition(target) THEN Logged(NotFound, <<>>)
    ELSE IF target \in obstacles THEN Logged(NotFound, <<>>)
    ELSE Search(target, obstacles, {},
                [openSet  |-> <<start>>,
                 cameFrom |-> <<>>,
                 gScore   |-> (start :> 0),
                 fScore   |-> (start :> heuristic(start, target))],
                <<>>)

\* findSafeMoves that leaves the bounds test to the caller
findSafeMoves_NoBoundsTest(position, obstacles) ==
    SelectSeq(Directions, LAMBDA d : getMovePosition(position, d) \notin obstacles)

\* findSafeMoves: the directions whose cell is in bounds and not an obstacle
findSafeMoves(position, obstacles) ==
    SelectSeq(Directions,
              LAMBDA d : /\ isValidPosition(getMovePosition(position, d))
                         /\ getMovePosition(position, d) \notin obstacles)

\* calculateSpaceScore: the free in-bounds neighbours (0..4)
calculateSpaceScore(position, obstacles) ==
    Len(SelectSeq(getNeighbors(position), LAMBDA n : n \notin obstacles))

RECURSIVE SumOver(_, _)
SumOver(s, f) == IF s = <<>> THEN 0 ELSE f[Head(s)] + SumOver(Tail(s), f)

\* totalFutureMoves of calculateMobilityScore (the score is min(4, this / 2))
totalFutureMoves(position, obstacles) ==
    LET open == SelectSeq(getNeighbors(position), LAMBDA n : n \notin obstacles)
        futureMoves == [n \in {open[i] : i \in 1 .. Len(open)} |->
                          Len(SelectSeq(getNeighbors(n),
                                        LAMBDA fn : fn \notin obstacles /\ fn # position))]
    IN SumOver(open, futureMoves)

\* calculateMoveScore.  The score is a real number,
\*     max(0, 50 - d) + 10 * space + 5 * center + 15 * min(4, future / 2),
\*     center = max(0, 4 - 4 * sqrt((x - W/2)^2 + (y - H/2)^2) / max(W/2, H/2)),
\* kept exactly as the pair [p, q] that stands for (p - 40 * sqrt(q)) / (2 * M),
\* M = max(W, H):  q = min((2x - W)^2 + (2y - H)^2, M^2) and
\* p = M * (2 * max(0, 50 - d) + 20 * space + 15 * min(8, future) + 40).
calculateMoveScore(movePos, target, obstacles) ==
    LET m == Max(boardWidth, boardHeight)
        dx == 2 * movePos[1] - boardWidth
        dy == 2 * movePos[2] - boardHeight
    IN [p |-> m * ( 2 * Max(0, 50 - heuristic(movePos, target))
                  + 20 * calculateSpaceScore(movePos, obstacles)
                  + 15 * Min(8, totalFutureMoves(movePos, obstacles))
                  + 40),
        q |-> Min(dx * dx + dy * dy, m * m)]

\* x * x * k >= r * r and x * x * k <= r * r for naturals x > 0, k, r,
\* without forming the product x * x * k
SquareTimesGeq(x, k, r) ==
    \/ k > (r * r) \div (x * x)
    \/ k = (r * r) \div (x * x) /\ (r * r) % (x * x) = 0
SquareTimesLeq(x, k, r) == k <= (r * r) \div (x * x)

\* a >= b for two scores: a.p - b.p >= 40 * (sqrt(a.q) - sqrt(b.q)), decided
\* in integers by squaring twice.
ScoreGeq(a, b) ==
    LET d == a.p - b.p
    IN IF a.q <= b.q
       THEN \/ d >= 0
            \/ LET l == 1600 * (b.q - a.q) - d * d
               IN l >= 0 /\ SquareTimesLeq(80 * (-d), a.q, l)
       ELSE /\ d > 0
            /\ LET r == 1600 * (a.q - b.q) - d * d
               IN r <= 0 \/ SquareTimesGeq(80 * d, b.q, r)

\* One step of a stable descending sort: x goes behind every element whose
\* score is >= its own (the comparator is b.score - a.score).
RECURSIVE InsertByScore(_, _)
InsertByScore(sorted, x) ==
    IF sorted = <<>> THEN <<x>>
    ELSE IF ScoreGeq(Head(sorted).score, x.score)
         THEN <<Head(sorted)>> \o InsertByScore(Tail(sorted), x)
         ELSE <<x>> \o sorted

\* getFallbackSuggestions that returns the moves in the order of findSafeMoves
SortByScore_KeepsOrder(moves) == moves

\* Array.prototype.sort((a, b) => b.score - a.score)
RECURSIVE SortByScore(_)
SortByScore(moves) ==
    IF moves = <<>> THEN <<>>
    ELSE InsertByScore(SortByScore(SubSeq(moves, 1, Len(moves) - 1)), moves[Len(moves)])

\* getFallbackSuggestions: the move list it returns (the reasoning and priority
\* texts are derived from this list and are not kept)
getFallbackSuggestions(position, target, obstacles) ==
    LET safeMoves == findSafeMoves(position, obstacles)
        scoredMoves == [i \in 1 .. Len(safeMoves) |->
                          [direction |-> safeMoves[i],
                           position  |-> getMovePosition(position, safeMoves[i]),
                           score     |-> calculateMoveScore(
                                             getMovePosition(position, safeMoves[i]),
                                             target, obstacles)]]
    IN IF Len(safeMoves) = 0 THEN <<>> ELSE SortByScore(scoredMoves)

\* Obstacle lists: every set of at most MaxObstacles cells.
ObstacleSets == {o \in SUBSET Cells : Cardinality(o) <= MaxObstacles}

NoCall == [op |-> "none"]

DMIdle ==
    /\ currentSpeed = baseSpeed
    /\ performanceHistory = <<>>
    /\ consecutiveSuccesses = 0
    /\ recentDeaths = 0
    /\ foodCollectionTimes = [total |-> 0, n |-> 0]
    /\ store = Absent
    /\ trail = <<>>

InitPF ==
    /\ DMIdle
    /\ AppIdle
    /\ boardWidth \in 1 .. MaxWidth
    /\ boardHeight \in 1 .. MaxHeight
    /\ pfIn \in [start : Cells \cup OutOfBounds, target : Cells \cup OutOfBounds,
                 obstacles : ObstacleSets]
    /\ pfOut = NoCall
    /\ dpIn = <<>> /\ enabled = TRUE /\ dangerZones = <<>> /\ dpOut = <<>>

\* pathfindingEngine.findPath(start, target, obstacles)
CallFindPath ==
    /\ pfOut = NoCall
    /\ pfOut' = [op |-> "findPath",
                 result |-> findPath(pfIn.start, pfIn.target, pfIn.obstacles)]
    /\ UNCHANGED <<boardWidth, boardHeight, pfIn, dpIn, enabled, dangerZones, dpOut>>
    /\ UNCHANGED <<dmVars, appVars>>

\* pathfindingEngine.getFallbackSuggestions(position, target, obstacles)
CallGetFallbackSuggestions ==
    /\ pfOut = NoCall
    /\ pfOut' = [op |-> "fallback",
                 moves |-> getFallbackSuggestions(pfIn.start, pfIn.target,
                                                  pfIn.obstacles)]
    /\ UNCHANGED <<boardWidth, boardHeight, pfIn, dpIn, enabled, dangerZones, dpOut>>
    /\ UNCHANGED <<dmVars, appVars>>

NextPF ==
    \/ CallFindPath
    \/ CallGetFallbackSuggestions

SpecPF == InitPF /\ [][NextPF]_vars

(***************************************************************************)
(*                            DangerPredictor                              *)
(***************************************************************************)

\* at most this many body segments
MaxBody == 2

\* The cap of floodFillCount.
maxCount == 100
\* The fixed severity of a corridor-trap zone.
TrapLevel == 40
\* Factor 5 of calculateDangerLevel: food further away than this adds 5.
FarFromFood == 10

\* new Set(snakeBody.map(...)): the cells of the body
BodyCells(snakeBody) == {snakeBody[i] : i \in 1 .. Len(snakeBody)}

\* countEscapeRoutes
countEscapeRoutes(position, obstacles) ==
    Cardinality({i \in 1 .. 4 : /\ isValidPosition(Around(position)[i])
                                /\ Around(position)[i] \notin obstacles})

\* calculateWallProximity counting each axis once
calculateWallProximity_PerAxis(position) ==
    LET nearX == position[1] <= 1 \/ position[1] >= boardWidth - 2
        nearY == position[2] <= 1 \/ position[2] >= boardHeight - 2
    IN (IF nearX THEN 1 ELSE 0) + (IF nearY THEN 1 ELSE 0)
       + (IF nearX /\ nearY THEN 1 ELSE 0)

\* calculateWallProximity
calculateWallProximity(position) ==
    LET nearX == position[1] <= 1 \/ position[1] >= boardWidth - 2
        nearY == position[2] <= 1 \/ position[2] >= boardHeight - 2
    IN (IF position[1] <= 1 THEN 1 ELSE 0)
       + (IF position[1] >= boardWidth - 2 THEN 1 ELSE 0)
       + (IF position[2] <= 1 THEN 1 ELSE 0)
       + (IF position[2] >= boardHeight - 2 THEN 1 ELSE 0)
       + (IF nearX /\ nearY THEN 1 ELSE 0)

\* calculateBodyProximity
calculateBodyProximity(position, snakeBody) ==
    Min(4, Cardinality({i \in 1 .. Len(snakeBody) :
                          heuristic(position, snakeBody[i]) <= 2}))

\* The entries of the queue that the loop does not skip: not visited, no
\* obstacle, on the board.
Countable(queue, visited, obstacles) ==
    {i \in 1 .. Len(queue) : /\ queue[i] \notin visited
                             /\ queue[i] \notin obstacles
                             /\ isValidPosition(queue[i])}

\* The loop of floodFillCount walking through obstacles
RECURSIVE FloodFill_IgnoresObstacles(_, _, _, _)
FloodFill_IgnoresObstacles(queue, visited, count, obstacles) ==
    IF count >= maxCount \/ Countable(queue, visited, {}) = {} THEN count
    ELSE LET first == CHOOSE i \in Countable(queue, visited, {}) :
                          \A j \in Countable(queue, visited, {}) : i <= j
             pos == queue[first]
         IN FloodFill_IgnoresObstacles(
                SubSeq(queue, first + 1, Len(queue))
                    \o << <<pos[1] + 1, pos[2]>>, <<pos[1] - 1, pos[2]>>,
                          <<pos[1], pos[2] + 1>>, <<pos[1], pos[2] - 1>> >>,
                visited \cup {pos}, count + 1, obstacles)

\* The while loop of floodFillCount; the iterations that skip an entry
\* (continue) are taken together with the next one that counts a cell.
RECURSIVE FloodFill(_, _, _, _)
FloodFill(queue, visited, count, obstacles) ==
    IF count >= maxCount \/ Countable(queue, visited, obstacles) = {} THEN count
    ELSE LET first == CHOOSE i \in Countable(queue, visited, obstacles) :
                          \A j \in Countable(queue, visited, obstacles) : i <= j
             pos == queue[first]
         IN FloodFill(SubSeq(queue, first + 1, Len(queue))
                          \o << <<pos[1] + 1, pos[2]>>, <<pos[1] - 1, pos[2]>>,
                                <<pos[1], pos[2] + 1>>, <<pos[1], pos[2] - 1>> >>,
                      visited \cup {pos}, count + 1, obstacles)

\* floodFillCount
floodFillCount(start, obstacles) == FloodFill(<<start>>, {}, 0, obstacles)

\* reachableArea / totalArea < tenths / 10 as JavaScript decides it: a zero
\* divisor gives Infinity or NaN (never smaller), a negative one a ratio <= 0.
RatioBelow(reachableArea, totalArea, tenths) ==
    IF totalArea > 0 THEN 10 * reachableArea < tenths * totalArea
    ELSE totalArea < 0

\* The sum calculateDangerLevel forms before its final Math.min
DangerSum(position, snakeBody, foodPosition) ==
    LET obstacles == BodyCells(snakeBody)
        escapeRoutes == countEscapeRoutes(position, obstacles)
        reachableArea == floodFillCount(position, obstacles)
        totalArea == boardWidth * boardHeight - Len(snakeBody)
    IN (CASE escapeRoutes = 0 -> 100
          [] escapeRoutes = 1 -> 60
          [] escapeRoutes = 2 -> 30
          [] OTHER -> 0)
       + calculateWallProximity(position) * 10
       + calculateBodyProximity(position, snakeBody) * 15
       + (IF RatioBelow(reachableArea, totalArea, 1) THEN 50
          ELSE IF RatioBelow(reachableArea, totalArea, 3) THEN 25 ELSE 0)
       + (IF heuristic(position, foodPosition) > FarFromFood THEN 5 ELSE 0)

\* calculateDangerLevel that returns the sum unclamped
calculateDangerLevel_NoClamp(position, snakeBody, foodPosition) ==
    DangerSum(position, snakeBody, foodPosition)

\* calculateDangerLevel whose "no escape route" branch adds nothing
calculateDangerLevel_NoDeadEnd(position, snakeBody, foodPosition) ==
    Min(100, DangerSum(position, snakeBody, foodPosition)
             - (IF countEscapeRoutes(position, BodyCells(snakeBody)) = 0
                THEN 100 ELSE 0))

\* calculateDangerLevel
calculateDangerLevel(position, snakeBody, foodPosition) ==
    Min(100, DangerSum(position, snakeBody, foodPosition))

\* getDangerReason
getDangerReason(level) ==
    IF level >= 80 THEN "CRITICAL: Dead end!"
    ELSE IF level >= 60 THEN "HIGH: Limited escape"
    ELSE IF level >= 40 THEN "MEDIUM: Risky area"
    ELSE IF level >= 20 THEN "LOW: Be careful"
    ELSE "Slight risk"

\* The first loop of analyze: the zones of the head's neighbours, from
\* direction i of the table on.
RECURSIVE NeighbourZones(_, _, _, _)
NeighbourZones(i, snakeHead, snakeBody, foodPosition) ==
    IF i > 4 THEN <<>>
    ELSE LET nextPos == getMovePosition(snakeHead, Directions[i])
             rest == NeighbourZones(i + 1, snakeHead, snakeBody, foodPosition)
         IN IF ~isValidPosition(nextPos) \/ nextPos \in BodyCells(snakeBody)
            THEN rest
            ELSE LET dangerLevel == calculateDangerLevel(nextPos, snakeBody, foodPosition)
                 IN IF dangerLevel > 0
                    THEN << [position |-> nextPos, level |-> dangerLevel,
                             direction |-> Directions[i],
                             reason |-> getDangerReason(dangerLevel)] >> \o rest
                    ELSE rest

\* detectCorridorTraps looking two cells ahead only
TrapProbes_TwoAway(snakeHead) ==
    [k \in 1 .. 12 |->
        LET j == (k - 1) % 4
        IN CASE j = 0 -> <<snakeHead[1] + 2, snakeHead[2]>>
             [] j = 1 -> <<snakeHead[1] - 2, snakeHead[2]>>
             [] j = 2 -> <<snakeHead[1], snakeHead[2] + 2>>
             [] j = 3 -> <<snakeHead[1], snakeHead[2] - 2>>]

\* The positions detectCorridorTraps probes, in the order it probes them.
TrapProbes(snakeHead) ==
    [k \in 1 .. 12 |->
        LET distance == 2 + (k - 1) \div 4
            j == (k - 1) % 4
        IN CASE j = 0 -> <<snakeHead[1] + distance, snakeHead[2]>>
             [] j = 1 -> <<snakeHead[1] - distance, snakeHead[2]>>
             [] j = 2 -> <<snakeHead[1], snakeHead[2] + distance>>
             [] j = 3 -> <<snakeHead[1], snakeHead[2] - distance>>]

\* detectCorridorTraps: the zones after probing positions k..12
RECURSIVE detectCorridorTraps(_, _, _, _)
detectCorridorTraps(k, zones, snakeHead, snakeBody) ==
    IF k > 12 THEN zones
    ELSE LET pos == TrapProbes(snakeHead)[k]
         IN IF /\ isValidPosition(pos)
               /\ countEscapeRoutes(pos, BodyCells(snakeBody)) <= 1
               /\ ~\E z \in 1 .. Len(zones) : zones[z].position = pos
            THEN detectCorridorTraps(k + 1,
                     Append(zones, [position |-> pos, level |-> TrapLevel,
                                    direction |-> "trap",
                                    reason |-> "Potential trap ahead"]),
                     snakeHead, snakeBody)
            ELSE detectCorridorTraps(k + 1, zones, snakeHead, snakeBody)

\* analyze: the dangerZones it leaves
analyze(isEnabled, snakeHead, snakeBody, foodPosition) ==
    IF ~isEnabled THEN <<>>
    ELSE detectCorridorTraps(1, NeighbourZones(1, snakeHead, snakeBody, foodPosition),
                             snakeHead, snakeBody)

\* Array.prototype.find(z => z.direction === dir): its index, 0 if none
RECURSIVE FindZone(_, _, _)
FindZone(zones, dir, i) ==
    IF i > Len(zones) THEN 0
    ELSE IF zones[i].direction = dir THEN i ELSE FindZone(zones, dir, i + 1)

ZoneDanger(zones, dir) ==
    IF FindZone(zones, dir, 1) = 0 THEN 0 ELSE zones[FindZone(zones, dir, 1)].level

\* The loop of getSafestDirection replacing its choice on a tie as well (<=)
RECURSIVE SafestFrom_LastWins(_, _, _, _)
SafestFrom_LastWins(i, zones, safest, lowestDanger) ==
    IF i > 4 THEN [direction |-> safest, dangerLevel |-> lowestDanger]
    ELSE IF safest = "null" \/ ZoneDanger(zones, Directions[i]) <= lowestDanger
         THEN SafestFrom_LastWins(i + 1, zones, Directions[i],
                                  ZoneDanger(zones, Directions[i]))
         ELSE SafestFrom_LastWins(i + 1, zones, safest, lowestDanger)

\* The loop of getSafestDirection from direction i on; lowestDanger starts at
\* Infinity, which is the state safest = "null".
RECURSIVE SafestFrom(_, _, _, _)
SafestFrom(i, zones, safest, lowestDanger) ==
    IF i > 4 THEN [direction |-> safest, dangerLevel |-> lowestDanger]
    ELSE IF safest = "null" \/ ZoneDanger(zones, Directions[i]) < lowestDanger
         THEN SafestFrom(i + 1, zones, Directions[i], ZoneDanger(zones, Directions[i]))
         ELSE SafestFrom(i + 1, zones, safest, lowestDanger)

\* getSafestDirection; its two arguments are not used by the code
getSafestDirection(zones) == SafestFrom(1, zones, "null", 0)

\* Snake bodies: every list of at most MaxBody cells (cells may repeat), up to
\* the order of its segments: analyze reads the body through the set of its
\* cells, its length and a count over its segments, none of which depends on
\* the order.
CellIndex(c) == c[1] * boardHeight + c[2]
Bodies == {b \in UNION {[1 .. n -> Cells] : n \in 0 .. MaxBody} :
             \A i \in 1 .. Len(b) - 1 : CellIndex(b[i]) <= CellIndex(b[i + 1])}
\* Food on the board, or further from every cell than FarFromFood.
Foods == {<<0, 0>>, <<boardWidth + FarFromFood, 0>>}

InitDP ==
    /\ DMIdle
    /\ AppIdle
    /\ boardWidth \in 1 .. MaxWidth
    /\ boardHeight \in 1 .. MaxHeight
    /\ pfIn = <<>> /\ pfOut = <<>>
    /\ dpIn \in [head : Cells, body : Bodies, food : Foods]
    /\ enabled = TRUE
    /\ dangerZones = <<>>
    /\ dpOut = NoCall

\* dangerPredictor.toggle()
toggle ==
    /\ dpOut = NoCall
    /\ enabled' = ~enabled
    /\ UNCHANGED <<boardWidth, boardHeight, pfIn, pfOut, dpIn, dangerZones, dpOut>>
    /\ UNCHANGED <<dmVars, appVars>>

\* dangerPredictor.analyze(snakeHead, snakeBody, foodPosition)
CallAnalyze ==
    /\ dpOut = NoCall
    /\ dangerZones' = analyze(enabled, dpIn.head, dpIn.body, dpIn.food)
    /\ dpOut' = [op |-> "analyze"]
    /\ UNCHANGED <<boardWidth, boardHeight, pfIn, pfOut, dpIn, enabled>>
    /\ UNCHANGED <<dmVars, appVars>>

\* dangerPredictor.getSafestDirection(snakeHead, snakeBody)
CallGetSafestDirection ==
    /\ dpOut.op # "safest"
    /\ dpOut' = [op |-> "safest", result |-> getSafestDirection(dangerZones)]
    /\ UNCHANGED <<boardWidth, boardHeight, pfIn, pfOut, dpIn, enabled, dangerZones>>
    /\ UNCHANGED <<dmVars, appVars>>

NextDP ==
    \/ toggle
    \/ CallAnalyze
    \/ CallGetSafestDirection

SpecDP == InitDP /\ [][NextDP]_vars

\* ---- bounds of the model of single DangerPredictor calls ----
\* a corridor one cell wide and this many cells long
CorridorLength == 5
\* a board of more than maxCount cells
LargeWidth == 11
LargeHeight == 10

\* The boards of the single calls: the small ones, the corridor and the
\* large one.
CallBoards ==
    ((1 .. MaxWidth) \X (1 .. MaxHeight))
        \cup {<<1, CorridorLength>>, <<LargeWidth, LargeHeight>>}

\* A body that fills column x of the board.
Column(x) == [i \in 1 .. boardHeight |-> <<x, i - 1>>]

\* Heads, bodies and food of the single calls; on the large board a few of
\* each.
CallInputs ==
    IF boardWidth * boardHeight <= maxCount
    THEN [head : Cells, body : Bodies, food : Foods]
    ELSE [head : {<<0, 0>>, <<0, 4>>, <<5, 4>>, <<boardWidth - 1, boardHeight - 1>>},
          body : {<<>>, Column(5), <<<<1, 0>>, <<0, 1>>>>},
          food : {<<0, 0>>}]

InitDPCalls ==
    /\ DMIdle
    /\ AppIdle
    /\ \E board \in CallBoards : boardWidth = board[1] /\ boardHeight = board[2]
    /\ pfIn = <<>> /\ pfOut = <<>>
    /\ dpIn \in CallInputs
    /\ enabled = TRUE
    /\ dangerZones = <<>>
    /\ dpOut = NoCall

\* dangerPredictor.calculateWallProximity(position)
CallCalculateWallProximity ==
    /\ dpOut = NoCall
    /\ dpOut' = [op |-> "calculateWallProximity", position |-> dpIn.head,
                 result |-> calculateWallProximity(dpIn.head)]
    /\ UNCHANGED <<boardWidth, boardHeight, pfIn, pfOut, dpIn, enabled, dangerZones>>
    /\ UNCHANGED <<dmVars, appVars>>

\* dangerPredictor.floodFillCount(start, obstacles), from the head or from
\* the cell left of it, which may be off the board
CallFloodFillCount ==
    /\ dpOut = NoCall
    /\ \E start \in {dpIn.head, getMovePosition(dpIn.head, "left")} :
          dpOut' = [op |-> "floodFillCount", start |-> start,
                    result |-> floodFillCount(start, BodyCells(dpIn.body))]
    /\ UNCHANGED <<boardWidth, boardHeight, pfIn, pfOut, dpIn, enabled, dangerZones>>
    /\ UNCHANGED <<dmVars, appVars>>

NextDPCalls ==
    \/ CallAnalyze
    \/ CallGetSafestDirection
    \/ CallCalculateWallProximity
    \/ CallFloodFillCount

SpecDPCalls == InitDPCalls /\ [][NextDPCalls]_vars

(***************************************************************************)
(*                                 Snake                                   *)
(***************************************************************************)

\* ---- bounds of the Snake model ----
\* grow is explored while the body is shorter than this
MaxLength == 3
\* move is explored while the head's coordinates are within 0 .. MaxCoord
MaxCoord == 2

\* new Snake(startX, startY)
Snake(startX, startY) ==
    [body |-> << <<startX, startY>> >>, direction |-> "right",
     nextDirection |-> "right", alive |-> TRUE]

\* The opposites table of changeDirection; a key it does not hold reads as
\* undefined.
opposites(d) == CASE d = "up"    -> "down"
                  [] d = "down"  -> "up"
                  [] d = "left"  -> "right"
                  [] d = "right" -> "left"
                  [] OTHER       -> "undefined"

\* The switch of move: the head one cell further in the direction; a
\* direction the switch has no case for leaves the copy of the head in place.
NewHead(head, d) == CASE d = "up"    -> <<head[1], head[2] - 1>>
                      [] d = "down"  -> <<head[1], head[2] + 1>>
                      [] d = "left"  -> <<head[1] - 1, head[2]>>
                      [] d = "right" -> <<head[1] + 1, head[2]>>
                      [] OTHER       -> head

\* Snake.move: unshift the new head, pop the tail
move(s) ==
    IF ~s.alive THEN s
    ELSE [s EXCEPT !.direction = s.nextDirection,
                   !.body = <<NewHead(s.body[1], s.nextDirection)>>
                            \o SubSeq(s.body, 1, Len(s.body) - 1)]

\* Snake.grow: push a copy of the tail
grow(s) ==
    IF ~s.alive THEN s
    ELSE [s EXCEPT !.body = Append(s.body, s.body[Len(s.body)])]

\* Snake.checkCollision that tests the walls only
checkCollision_WallsOnly(s, width, height) ==
    IF ~s.alive THEN [snake |-> s, collided |-> TRUE]
    ELSE LET head == s.body[1]
         IN IF head[1] < 0 \/ head[1] >= width \/ head[2] < 0 \/ head[2] >= height
            THEN [snake |-> [s EXCEPT !.alive = FALSE], collided |-> TRUE]
            ELSE [snake |-> s, collided |-> FALSE]

\* Snake.checkCollision: the snake it leaves and the value it returns
checkCollision(s, width, height) ==
    IF ~s.alive THEN [snake |-> s, collided |-> TRUE]
    ELSE LET head == s.body[1]
         IN IF head[1] < 0 \/ head[1] >= width \/ head[2] < 0 \/ head[2] >= height
            THEN [snake |-> [s EXCEPT !.alive = FALSE], collided |-> TRUE]
            ELSE IF \E i \in 2 .. Len(s.body) : s.body[i] = head
                 THEN [snake |-> [s EXCEPT !.alive = FALSE], collided |-> TRUE]
                 ELSE [snake |-> s, collided |-> FALSE]

\* Snake.changeDirection that accepts a reversal
changeDirection_AcceptsReversal(s, newDirection) ==
    IF ~s.alive THEN s ELSE [s EXCEPT !.nextDirection = newDirection]

\* Snake.changeDirection
changeDirection(s, newDirection) ==
    IF ~s.alive THEN s
    ELSE IF opposites(s.direction) # newDirection
         THEN [s EXCEPT !.nextDirection = newDirection]
         ELSE s

\* Boards handed to checkCollision.
CollisionBoards == {<<MaxCoord + 1, MaxCoord + 1>>, <<MaxCoord, MaxCoord>>}

InitSnake ==
    /\ DMIdle
    /\ boardWidth = 0 /\ boardHeight = 0
    /\ pfIn = <<>> /\ pfOut = <<>>
    /\ dpIn = <<>> /\ enabled = TRUE /\ dangerZones = <<>> /\ dpOut = <<>>
    /\ EngineIdle /\ UIIdle /\ call = <<>>
    /\ snake = Snake(1, 1)
    /\ snakeCalls = <<>>

\* snake.changeDirection(newDirection)
CallChangeDirection ==
    /\ \E newDirection \in {Directions[i] : i \in 1 .. 4} :
          /\ snake' = changeDirection(snake, newDirection)
          /\ snakeCalls' = <<[op |-> "changeDirection", arg |-> newDirection,
                              before |-> snake]>>
    /\ UNCHANGED <<dmVars, gridVars, engineVars, uiVars, call>>

\* snake.move()
CallMove ==
    /\ snake.body[1][1] \in 0 .. MaxCoord
    /\ snake.body[1][2] \in 0 .. MaxCoord
    /\ snake' = move(snake)
    /\ snakeCalls' = (IF Len(snakeCalls) = 1 /\ snakeCalls[1].op = "changeDirection"
                      THEN snakeCalls ELSE <<>>)
                     \o <<[op |-> "move", arg |-> "", before |-> snake]>>
    /\ UNCHANGED <<dmVars, gridVars, engineVars, uiVars, call>>

\* snake.grow()
CallGrow ==
    /\ Len(snake.body) < MaxLength
    /\ snake' = grow(snake)
    /\ snakeCalls' = <<>>
    /\ UNCHANGED <<dmVars, gridVars, engineVars, uiVars, call>>

\* snake.checkCollision(boardWidth, boardHeight)
CallCheckCollision ==
    /\ \E board \in CollisionBoards :
          snake' = checkCollision(snake, board[1], board[2]).snake
    /\ snakeCalls' = <<>>
    /\ UNCHANGED <<dmVars, gridVars, engineVars, uiVars, call>>

NextSnake ==
    \/ CallChangeDirection
    \/ CallMove
    \/ CallGrow
    \/ CallCheckCollision

SpecSnake == InitSnake /\ [][NextSnake]_vars

(***************************************************************************)
(*                   Food, InputManager and GameEngine                     *)
(***************************************************************************)

\* ---- bounds of the GameEngine model ----
\* canvases of 2..MaxGridWidth by 2..MaxGridHeight cells
MaxGridWidth == 2
MaxGridHeight == 2

\* Food.pointValue
pointValue == 10
\* InputManager.maxQueueSize
maxQueueSize == 3

\* Food.getEmptyPositions: the cells of the board no body segment occupies
getEmptyPositions(width, height, occupiedPositions) ==
    {c \in (0 .. width - 1) \X (0 .. height - 1) :
        \A i \in 1 .. Len(occupiedPositions) : occupiedPositions[i] # c}

\* Food.spawn: the positions the random choice can give; the origin when no
\* position is empty
spawn(width, height, occupiedPositions) ==
    IF getEmptyPositions(width, height, occupiedPositions) = {}
    THEN {<<0, 0>>}
    ELSE getEmptyPositions(width, height, occupiedPositions)

\* InputManager.isValidDirection: not the opposite of the last queued
\* direction, or of currentDirection when the queue is empty
isValidDirection(queue, current, newDirection) ==
    LET checkDirection == IF Len(queue) > 0 THEN queue[Len(queue)] ELSE current
    IN opposites(checkDirection) # newDirection

\* GameEngine.changeDirection, the callback of the InputManager
GameEngine_changeDirection(state, s, d) ==
    IF state = "running" THEN changeDirection(s, d) ELSE s

\* The history of a game: the directions of the snake's last two moves, the
\* number of recordGameEnd calls, whether the snake moved after the game
\* ended, and what the last tick did ("none" once another operation of the
\* engine followed it).
NewGame == [dirs |-> <<>>, ends |-> 0, late |-> FALSE, tick |-> "none"]

\* The head of a body is off the board or on another segment of the body.
HeadCollides(b) ==
    \/ b[1][1] < 0 \/ b[1][1] >= gridWidth \/ b[1][2] < 0 \/ b[1][2] >= gridHeight
    \/ \E i \in 2 .. Len(b) : b[i] = b[1]

\* GameEngine.initializeGame, as part of the constructor and of start()
GameEngine_initializeGame ==
    /\ snake' = Snake(gridWidth \div 2, gridHeight \div 2)
    /\ directionQueue' = <<>>
    /\ currentDirection' = "right"
    /\ lastInputTime' = 0
    /\ food' \in spawn(gridWidth, gridHeight, snake'.body)
    /\ gameScore' = 0
    /\ game' = NewGame

InitGE ==
    /\ DMIdle
    /\ boardWidth = 0 /\ boardHeight = 0
    /\ pfIn = <<>> /\ pfOut = <<>>
    /\ dpIn = <<>> /\ enabled = TRUE /\ dangerZones = <<>> /\ dpOut = <<>>
    /\ UIIdle /\ call = <<>>
    /\ snakeCalls = <<>>
    /\ gridWidth \in 2 .. MaxGridWidth
    /\ gridHeight \in 2 .. MaxGridHeight
    /\ snake = Snake(gridWidth \div 2, gridHeight \div 2)
    /\ directionQueue = <<>>
    /\ currentDirection = "right"
    /\ lastInputTime = 0
    /\ food \in spawn(gridWidth, gridHeight, snake.body)
    /\ gameScore = 0
    /\ gameState = "stopped"
    /\ game = NewGame

\* GameEngine.start
GameEngine_start ==
    /\ IF gameState \in {"stopped", "gameOver"}
       THEN GameEngine_initializeGame
       ELSE /\ game' = [game EXCEPT !.tick = "none"]
            /\ UNCHANGED <<snake, directionQueue, currentDirection, lastInputTime,
                           food, gameScore>>
    /\ gameState' = "running"
    /\ UNCHANGED <<gridWidth, gridHeight, snakeCalls>>
    /\ UNCHANGED <<dmVars, gridVars, uiVars, call>>

\* GameEngine.togglePause
togglePause ==
    /\ gameState' = CASE gameState = "running" -> "paused"
                      [] gameState = "paused"  -> "running"
                      [] OTHER                 -> gameState
    /\ game' = [game EXCEPT !.tick = "none"]
    /\ UNCHANGED <<gridWidth, gridHeight, food, gameScore, directionQueue,
                   currentDirection, lastInputTime, snakeVars>>
    /\ UNCHANGED <<dmVars, gridVars, uiVars, call>>

\* GameEngine.stop
stop ==
    /\ gameState' = "stopped"
    /\ game' = [game EXCEPT !.tick = "none"]
    /\ UNCHANGED <<gridWidth, gridHeight, food, gameScore, directionQueue,
                   currentDirection, lastInputTime, snakeVars>>
    /\ UNCHANGED <<dmVars, gridVars, uiVars, call>>

\* InputManager.queueDirection, called by handleKeyDown for a direction key;
\* tooSoon says whether the key came within inputCooldown of the last
\* accepted one.
queueDirection ==
    /\ \E direction \in {Directions[i] : i \in 1 .. 4}, tooSoon \in BOOLEAN :
          IF \/ lastInputTime # 0 /\ tooSoon
             \/ ~isValidDirection(directionQueue, currentDirection, direction)
             \/ \E i \in 1 .. Len(directionQueue) : directionQueue[i] = direction
             \/ Len(directionQueue) >= maxQueueSize
          THEN UNCHANGED <<directionQueue, lastInputTime>>
          ELSE /\ directionQueue' = Append(directionQueue, direction)
               /\ lastInputTime' = 1
    /\ UNCHANGED <<gridWidth, gridHeight, food, gameState, gameScore,
                   currentDirection, game, snakeVars>>
    /\ UNCHANGED <<dmVars, gridVars, uiVars, call>>

\* snake.changeDirection called directly on the engine's snake
SnakeChangeDirection ==
    /\ \E newDirection \in {Directions[i] : i \in 1 .. 4} :
          snake' = changeDirection(snake, newDirection)
    /\ UNCHANGED <<snakeCalls, engineVars>>
    /\ UNCHANGED <<dmVars, gridVars, uiVars, call>>

\* GameEngine.endGame: the game state and the history it leaves
endGame(g) == [g EXCEPT !.ends = g.ends + 1]

\* GameEngine.update
update ==
    IF ~snake.alive
    THEN /\ gameState' = "gameOver"
         /\ game' = endGame([game EXCEPT !.tick = "dead"])
         /\ UNCHANGED <<snake, food, gameScore, directionQueue, currentDirection,
                        lastInputTime>>
    ELSE LET queued == Len(directionQueue) > 0
             \* processQueue: getNextDirection shifts one direction and hands
             \* it to GameEngine.changeDirection
             turned == IF queued
                       THEN GameEngine_changeDirection(gameState, snake,
                                                       directionQueue[1])
                       ELSE snake
             moved == move(turned)
             checked == checkCollision(moved, gridWidth, gridHeight)
             g == [game EXCEPT
                      !.dirs = SliceLast(Append(game.dirs, moved.direction), 2),
                      !.late = game.late \/ game.ends > 0,
                      !.tick = IF HeadCollides(moved.body) THEN "collision"
                               ELSE IF moved.body[1] = food THEN "food"
                               ELSE "moved"]
         IN /\ directionQueue' = IF queued THEN Tail(directionQueue)
                                 ELSE directionQueue
            \* setCurrentDirection(this.snake.direction), read before the move
            /\ currentDirection' = snake.direction
            /\ UNCHANGED lastInputTime
            /\ IF checked.collided
               THEN /\ snake' = checked.snake
                    /\ gameState' = "gameOver"
                    /\ game' = endGame(g)
                    /\ UNCHANGED <<food, gameScore>>
               ELSE IF checked.snake.body[1] = food
                    \* collectFood
                    THEN /\ snake' = grow(checked.snake)
                         /\ gameScore' = gameScore + pointValue
                         /\ food' \in spawn(gridWidth, gridHeight, snake'.body)
                         /\ gameState' = gameState
                         /\ game' = g
                    ELSE /\ snake' = checked.snake
                         /\ gameState' = gameState
                         /\ game' = g
                         /\ UNCHANGED <<food, gameScore>>

\* GameEngine.gameLoop, one animation frame in which a move is due
gameLoop ==
    /\ gameState = "running"
    /\ update
    /\ UNCHANGED <<gridWidth, gridHeight, snakeCalls>>
    /\ UNCHANGED <<dmVars, gridVars, uiVars, call>>

NextGE ==
    \/ GameEngine_start
    \/ togglePause
    \/ stop
    \/ queueDirection
    \/ SnakeChangeDirection
    \/ gameLoop

SpecGE == InitGE /\ [][NextGE]_vars

(***************************************************************************)
(*                  DifficultyManager, call by call                        *)
(***************************************************************************)

\* ---- bound of the call-by-call model ----
\* at most this many calls follow the construction
MaxCalls == 3

\* A history of n samples told apart by their scores.
Numbered(n) == [i \in 1 .. n |-> Sample(100 + i, 20000)]

\* Snapshots found at construction: none, one written by this program after
\* two, three, nine and twelve games, and one with a stale counter and no
\* history.
CallStores ==
    {Absent,
     Snapshot(NotNum, NotArr, NotNum, Num(7)),
     Snapshot(Num(65), Arr(<<Sample(150, 40000), Sample(150, 40000)>>), Num(0), Num(0)),
     Snapshot(Num(120), Arr(<<Sample(150, 40000), Sample(20, 40000),
                              Sample(20, 40000)>>), Num(1), Num(0)),
     Snapshot(Num(290), Arr(Numbered(9)), Num(0), Num(0)),
     Snapshot(Num(300), Arr(Numbered(12)), Num(2), Num(1))}

\* The difficulty state and the store as a call finds them.
Before ==
    [speed |-> currentSpeed, hist |-> performanceHistory,
     cs |-> consecutiveSuccesses, rd |-> recentDeaths, store |-> store]

\* The record of a call: its name, its argument, what it returned, whether
\* its localStorage.setItem succeeded, and the state before it.
Called(op, arg, result, wrote) ==
    [op |-> op, arg |-> arg, result |-> result, wrote |-> wrote,
     n |-> call.n + 1, before |-> Before]

\* getDifficultyLevel rounding to the nearest level instead of down
getDifficultyLevel_Rounds(speed) ==
    Max(1, Min(10, (((maxSpeed - speed) * 18 + (maxSpeed - minSpeed))
                    \div (2 * (maxSpeed - minSpeed))) + 1))

\* getDifficultyLevel
getDifficultyLevel(speed) ==
    Max(1, Min(10, (((maxSpeed - speed) * 9) \div (maxSpeed - minSpeed)) + 1))

InitDMCalls ==
    /\ store \in CallStores
    /\ LET c == Constructed(store)
       IN /\ currentSpeed = c.speed
          /\ performanceHistory = c.hist
          /\ consecutiveSuccesses = c.cs
          /\ recentDeaths = c.rd
    /\ foodCollectionTimes = [total |-> 0, n |-> 0]
    /\ trail = <<>>
    /\ boardWidth = 0 /\ boardHeight = 0
    /\ pfIn = <<>> /\ pfOut = <<>>
    /\ dpIn = <<>> /\ enabled = TRUE /\ dangerZones = <<>> /\ dpOut = <<>>
    /\ SnakeIdle /\ EngineIdle /\ UIIdle
    /\ call = [op |-> "constructor", arg |-> 0, result |-> 0, wrote |-> FALSE,
               n |-> 0,
               before |-> [speed |-> baseSpeed, hist |-> <<>>, cs |-> 0, rd |-> 0,
                           store |-> store]]

\* new DifficultyManager() over the store as it is (the next session)
CallConstructor ==
    /\ call.n < MaxCalls
    /\ LET c == Constructed(store)
       IN /\ currentSpeed' = c.speed
          /\ performanceHistory' = c.hist
          /\ consecutiveSuccesses' = c.cs
          /\ recentDeaths' = c.rd
    /\ foodCollectionTimes' = [total |-> 0, n |-> 0]
    /\ call' = Called("constructor", 0, 0, FALSE)
    /\ UNCHANGED <<store, trail>>
    /\ UNCHANGED <<gridVars, snakeVars, engineVars, uiVars>>

\* initializeGame that resets the speed at every game start
CallInitializeGame_AlwaysResets ==
    /\ call.n < MaxCalls
    /\ foodCollectionTimes' = [total |-> 0, n |-> 0]
    /\ currentSpeed' = baseSpeed
    /\ call' = Called("initializeGame", 0, 0, FALSE)
    /\ UNCHANGED <<performanceHistory, consecutiveSuccesses, recentDeaths, store, trail>>
    /\ UNCHANGED <<gridVars, snakeVars, engineVars, uiVars>>

\* difficultyManager.initializeGame()
CallInitializeGame ==
    /\ call.n < MaxCalls
    /\ foodCollectionTimes' = [total |-> 0, n |-> 0]
    /\ currentSpeed' = IF Len(performanceHistory) = 0 THEN baseSpeed ELSE currentSpeed
    /\ call' = Called("initializeGame", 0, 0, FALSE)
    /\ UNCHANGED <<performanceHistory, consecutiveSuccesses, recentDeaths, store, trail>>
    /\ UNCHANGED <<gridVars, snakeVars, engineVars, uiVars>>

\* difficultyManager.recordFoodCollection(score, length); localStorage.setItem
\* may throw, which savePerformanceData catches
CallRecordFoodCollection ==
    /\ call.n < MaxCalls
    /\ \E timeSinceLastFood \in FoodIntervals :
          foodCollectionTimes' = [total |-> foodCollectionTimes.total + timeSinceLastFood,
                                  n |-> foodCollectionTimes.n + 1]
    /\ IF consecutiveSuccesses + 1 >= speedIncreaseThreshold
       THEN /\ currentSpeed' = increaseDifficulty(currentSpeed)
            /\ consecutiveSuccesses' = 0
            /\ \E wrote \in BOOLEAN :
                  /\ store' = IF wrote
                              THEN savePerformanceData(currentSpeed', performanceHistory,
                                                       0, recentDeaths)
                              ELSE store
                  /\ call' = Called("recordFoodCollection", 0, 0, wrote)
       ELSE /\ consecutiveSuccesses' = consecutiveSuccesses + 1
            /\ call' = Called("recordFoodCollection", 0, 0, FALSE)
            /\ UNCHANGED <<currentSpeed, store>>
    /\ UNCHANGED <<performanceHistory, recentDeaths, trail>>
    /\ UNCHANGED <<gridVars, snakeVars, engineVars, uiVars>>

\* recordGameEnd that drops the newest sample when the history is full
CallRecordGameEnd_DropsNewest ==
    /\ call.n < MaxCalls
    /\ \E score \in Scores, survivalTime \in Survivals, wrote \in BOOLEAN :
          LET pushed == Append(performanceHistory, Sample(score, survivalTime))
              hist == IF Len(pushed) > maxHistoryLength
                      THEN SubSeq(pushed, 1, maxHistoryLength) ELSE pushed
              a == analyzePerformanceAndAdjust(currentSpeed, hist, recentDeaths + 1,
                                               foodCollectionTimes)
          IN /\ performanceHistory' = hist
             /\ consecutiveSuccesses' = 0
             /\ currentSpeed' = a.speed
             /\ recentDeaths' = a.rd
             /\ store' = IF wrote THEN savePerformanceData(a.speed, hist, 0, a.rd)
                         ELSE store
             /\ call' = Called("recordGameEnd", Sample(score, survivalTime), 0, wrote)
    /\ UNCHANGED <<foodCollectionTimes, trail>>
    /\ UNCHANGED <<gridVars, snakeVars, engineVars, uiVars>>

\* difficultyManager.recordGameEnd(gameStats)
CallRecordGameEnd ==
    /\ call.n < MaxCalls
    /\ \E score \in Scores, survivalTime \in Survivals, wrote \in BOOLEAN :
          LET pushed == Append(performanceHistory, Sample(score, survivalTime))
              hist == IF Len(pushed) > maxHistoryLength THEN Tail(pushed) ELSE pushed
              a == analyzePerformanceAndAdjust(currentSpeed, hist, recentDeaths + 1,
                                               foodCollectionTimes)
          IN /\ performanceHistory' = hist
             /\ consecutiveSuccesses' = 0
             /\ currentSpeed' = a.speed
             /\ recentDeaths' = a.rd
             /\ store' = IF wrote THEN savePerformanceData(a.speed, hist, 0, a.rd)
                         ELSE store
             /\ call' = Called("recordGameEnd", Sample(score, survivalTime), 0, wrote)
    /\ UNCHANGED <<foodCollectionTimes, trail>>
    /\ UNCHANGED <<gridVars, snakeVars, engineVars, uiVars>>

\* difficultyManager.setSpeed(speed)
CallSetSpeed ==
    /\ call.n < MaxCalls
    /\ \E speed \in SetSpeedInputs :
          /\ currentSpeed' = Max(minSpeed, Min(maxSpeed, speed))
          /\ call' = Called("setSpeed", speed, 0, FALSE)
    /\ UNCHANGED <<performanceHistory, consecutiveSuccesses, recentDeaths,
                   foodCollectionTimes, store, trail>>
    /\ UNCHANGED <<gridVars, snakeVars, engineVars, uiVars>>

\* difficultyManager.resetDifficulty()
CallResetDifficulty ==
    /\ call.n < MaxCalls
    /\ currentSpeed' = baseSpeed
    /\ consecutiveSuccesses' = 0
    /\ recentDeaths' = 0
    /\ performanceHistory' = <<>>
    /\ \E wrote \in BOOLEAN :
          /\ store' = IF wrote THEN savePerformanceData(baseSpeed, <<>>, 0, 0)
                      ELSE store
          /\ call' = Called("resetDifficulty", 0, 0, wrote)
    /\ UNCHANGED <<foodCollectionTimes, trail>>
    /\ UNCHANGED <<gridVars, snakeVars, engineVars, uiVars>>

\* difficultyManager.clearSavedData()
CallClearSavedData ==
    /\ call.n < MaxCalls
    /\ \E wrote \in BOOLEAN :
          /\ store' = IF wrote THEN Absent ELSE store
          /\ call' = Called("clearSavedData", 0, 0, wrote)
    /\ UNCHANGED <<currentSpeed, performanceHistory, consecutiveSuccesses, recentDeaths,
                   foodCollectionTimes, trail>>
    /\ UNCHANGED <<gridVars, snakeVars, engineVars, uiVars>>

\* difficultyManager.savePerformanceData()
CallSavePerformanceData ==
    /\ call.n < MaxCalls
    /\ \E wrote \in BOOLEAN :
          /\ store' = IF wrote
                      THEN savePerformanceData(currentSpeed, performanceHistory,
                                               consecutiveSuccesses, recentDeaths)
                      ELSE store
          /\ call' = Called("savePerformanceData", 0, 0, wrote)
    /\ UNCHANGED <<currentSpeed, performanceHistory, consecutiveSuccesses, recentDeaths,
                   foodCollectionTimes, trail>>
    /\ UNCHANGED <<gridVars, snakeVars, engineVars, uiVars>>

\* difficultyManager.getCurrentSpeed()
CallGetCurrentSpeed ==
    /\ call.n < MaxCalls
    /\ call' = Called("getCurrentSpeed", 0, currentSpeed, FALSE)
    /\ UNCHANGED <<dmVars, gridVars, snakeVars, engineVars, uiVars>>

\* difficultyManager.getDifficultyLevel()
CallGetDifficultyLevel ==
    /\ call.n < MaxCalls
    /\ call' = Called("getDifficultyLevel", 0, getDifficultyLevel(currentSpeed), FALSE)
    /\ UNCHANGED <<dmVars, gridVars, snakeVars, engineVars, uiVars>>

\* difficultyManager.getPerformanceStats(); gamesPlayed stands for the
\* statistics it returns
CallGetPerformanceStats ==
    /\ call.n < MaxCalls
    /\ call' = Called("getPerformanceStats", 0, Len(performanceHistory), FALSE)
    /\ UNCHANGED <<dmVars, gridVars, snakeVars, engineVars, uiVars>>

NextDMCalls ==
    \/ CallConstructor
    \/ CallInitializeGame
    \/ CallRecordFoodCollection
    \/ CallRecordGameEnd
    \/ CallSetSpeed
    \/ CallResetDifficulty
    \/ CallClearSavedData
    \/ CallSavePerformanceData
    \/ CallGetCurrentSpeed
    \/ CallGetDifficultyLevel
    \/ CallGetPerformanceStats

SpecDMCalls == InitDMCalls /\ [][NextDMCalls]_vars

\* Construction over every kind of snapshot: the stores of InitialStores and
\* of CallStores, and those the manager writes itself after setSpeed.
InitDMLoad ==
    /\ store \in InitialStores \cup CallStores
    /\ LET c == Constructed(store)
       IN /\ currentSpeed = c.speed
          /\ performanceHistory = c.hist
          /\ consecutiveSuccesses = c.cs
          /\ recentDeaths = c.rd
    /\ foodCollectionTimes = [total |-> 0, n |-> 0]
    /\ trail = <<>>
    /\ boardWidth = 0 /\ boardHeight = 0
    /\ pfIn = <<>> /\ pfOut = <<>>
    /\ dpIn = <<>> /\ enabled = TRUE /\ dangerZones = <<>> /\ dpOut = <<>>
    /\ SnakeIdle /\ EngineIdle /\ UIIdle
    /\ call = [op |-> "constructor", arg |-> 0, result |-> 0, wrote |-> FALSE,
               n |-> 0,
               before |-> [speed |-> baseSpeed, hist |-> <<>>, cs |-> 0, rd |-> 0,
                           store |-> store]]

NextDMLoad ==
    \/ CallConstructor
    \/ CallSetSpeed
    \/ CallSavePerformanceData
    \/ CallClearSavedData
    \/ CallGetDifficultyLevel

SpecDMLoad == InitDMLoad /\ [][NextDMLoad]_vars

(***************************************************************************)
(*                               UIManager                                 *)
(***************************************************************************)

\* ---- bound of the UIManager model ----
\* at most this many finished games are recorded
MaxShown == 2

\* final scores of the finished games
FinalScores == {20, 150}

\* A localStorage item: none, the decimal string of an integer, or a string
\* that is neither a number nor JSON.
NoItem == [kind |-> "none"]
Digits(n) == [kind |-> "digits", val |-> n]
Garbage == [kind |-> "text"]

\* The 'snakeGameData' item as JSON.stringify writes it; of its fields the
\* high score and the number of games are kept.
GameData(h, games) == [kind |-> "json", highScore |-> h, totalGamesPlayed |-> games]

\* parseInt(item, 10) of a stored string
parseInt(item) ==
    IF item.kind = "digits" THEN [nan |-> FALSE, val |-> item.val]
    ELSE [nan |-> TRUE, val |-> 0]

\* Math.max(0, parseInt(v) || 0) of a JSON value
Validated(v) == IF v.num THEN Max(0, v.val) ELSE 0

\* loadHighScore
loadHighScore(st) ==
    IF st.snakeHighScore.kind = "none" THEN 0
    ELSE LET parsed == parseInt(st.snakeHighScore)
         IN IF parsed.nan \/ parsed.val < 0 THEN 0 ELSE parsed.val

\* getDefaultGameData
getDefaultGameData == [highScore |-> 0, totalGamesPlayed |-> 0]

\* loadGameData: the validated data and the value of this.highScore after
\* the call, hs being its value before
loadGameData(st, hs) ==
    IF st.snakeGameData.kind # "json"
    THEN [data |-> getDefaultGameData, highScore |-> hs]
    ELSE LET h == Validated(st.snakeGameData.highScore)
         IN [data |-> [highScore |-> h,
                       totalGamesPlayed |-> Validated(st.snakeGameData.totalGamesPlayed)],
             highScore |-> h]

\* updatePersistentStats: the storage and this.highScore after the call;
\* wrote tells whether localStorage.setItem succeeded
updatePersistentStats(st, hs, score, wrote) ==
    LET loaded == loadGameData(st, hs)
        isHigh == score > loaded.data.highScore
        high == IF isHigh THEN score ELSE loaded.data.highScore
        saved == GameData(Num(high), Num(loaded.data.totalGamesPlayed + 1))
    IN [storage |-> IF wrote THEN [st EXCEPT !.snakeGameData = saved] ELSE st,
        highScore |-> IF isHigh THEN score ELSE loaded.highScore]

\* The high score held by 'snakeGameData'.
StoredHighScore(st) == loadGameData(st, 0).data.highScore

\* The storage a first session may find: empty, or holding items this
\* program did not write.
FoundStorages ==
    {[snakeHighScore |-> NoItem, snakeGameData |-> NoItem],
     [snakeHighScore |-> Garbage, snakeGameData |-> Garbage],
     [snakeHighScore |-> Digits(-5), snakeGameData |-> GameData(NotNum, Num(-1))]}

\* The record of the last UIManager call: the highest score and the number
\* of the games recorded so far, whether the data was cleared or reset or a
\* write failed, whether the manager is freshly constructed, what the call
\* returned and the stored high score before it.
UICall(op, best, n, reset, failed, fresh, result) ==
    [op |-> op, max |-> best, n |-> n, reset |-> reset, failed |-> failed,
     fresh |-> fresh, result |-> result, stored |-> StoredHighScore(storage)]

InitUI ==
    /\ storage \in FoundStorages
    /\ highScore = loadHighScore(storage)
    /\ gameOverScreen = FALSE
    /\ recorded = [op |-> "constructor", max |-> 0, n |-> 0, reset |-> FALSE,
                   failed |-> FALSE, fresh |-> TRUE, result |-> 0,
                   stored |-> StoredHighScore(storage)]
    /\ currentSpeed = baseSpeed /\ performanceHistory = <<>>
    /\ consecutiveSuccesses = 0 /\ recentDeaths = 0
    /\ foodCollectionTimes = [total |-> 0, n |-> 0]
    /\ store = Absent /\ trail = <<>>
    /\ boardWidth = 0 /\ boardHeight = 0
    /\ pfIn = <<>> /\ pfOut = <<>>
    /\ dpIn = <<>> /\ enabled = TRUE /\ dangerZones = <<>> /\ dpOut = <<>>
    /\ SnakeIdle /\ EngineIdle /\ call = <<>>

\* new UIManager() in a later session, over the storage as it is
UIManager_constructor ==
    /\ highScore' = loadHighScore(storage)
    /\ gameOverScreen' = FALSE
    /\ recorded' = UICall("constructor", recorded.max, recorded.n, recorded.reset,
                            recorded.failed, TRUE, 0)
    /\ UNCHANGED storage
    /\ UNCHANGED <<dmVars, gridVars, snakeVars, engineVars, call>>

\* uiManager.init(); the page may or may not hold the game over screen
UIManager_init ==
    /\ \E found \in BOOLEAN : gameOverScreen' = found
    /\ recorded' = UICall("init", recorded.max, recorded.n, recorded.reset,
                            recorded.failed, FALSE, 0)
    /\ UNCHANGED <<highScore, storage>>
    /\ UNCHANGED <<dmVars, gridVars, snakeVars, engineVars, call>>

\* uiManager.showGameOver(stats)
showGameOver ==
    /\ recorded.n < MaxShown
    /\ \E score \in FinalScores, wrote \in BOOLEAN :
          IF ~gameOverScreen
          THEN /\ recorded' = UICall("showGameOver", recorded.max, recorded.n,
                                       recorded.reset, recorded.failed, FALSE, 0)
               /\ UNCHANGED <<highScore, storage>>
          ELSE LET u == updatePersistentStats(storage, highScore, score, wrote)
               IN /\ storage' = u.storage
                  /\ highScore' = u.highScore
                  /\ recorded' = UICall("showGameOver", Max(recorded.max, score),
                                          recorded.n + 1, recorded.reset,
                                          recorded.failed \/ ~wrote, FALSE,
                                          StoredHighScore(u.storage))
    /\ UNCHANGED gameOverScreen
    /\ UNCHANGED <<dmVars, gridVars, snakeVars, engineVars, call>>

\* uiManager.updatePersistentStats(gameStats)
CallUpdatePersistentStats ==
    /\ recorded.n < MaxShown
    /\ \E score \in FinalScores, wrote \in BOOLEAN :
          LET u == updatePersistentStats(storage, highScore, score, wrote)
          IN /\ storage' = u.storage
             /\ highScore' = u.highScore
             /\ recorded' = UICall("updatePersistentStats", Max(recorded.max, score),
                                     recorded.n + 1, recorded.reset,
                                     recorded.failed \/ ~wrote, FALSE,
                                     StoredHighScore(u.storage))
    /\ UNCHANGED gameOverScreen
    /\ UNCHANGED <<dmVars, gridVars, snakeVars, engineVars, call>>

\* uiManager.getPersistentStats()
getPersistentStats ==
    /\ highScore' = loadGameData(storage, highScore).highScore
    /\ recorded' = UICall("getPersistentStats", recorded.max, recorded.n,
                            recorded.reset, recorded.failed, FALSE,
                            StoredHighScore(storage))
    /\ UNCHANGED <<gameOverScreen, storage>>
    /\ UNCHANGED <<dmVars, gridVars, snakeVars, engineVars, call>>

\* uiManager.clearPersistentData(); either removeItem may throw
clearPersistentData ==
    /\ \E outcome \in {"cleared", "first throws", "second throws"} :
          /\ storage' = IF outcome = "cleared"
                        THEN [snakeHighScore |-> NoItem, snakeGameData |-> NoItem]
                        ELSE IF outcome = "second throws"
                             THEN [storage EXCEPT !.snakeHighScore = NoItem]
                             ELSE storage
          /\ highScore' = IF outcome = "cleared" THEN 0 ELSE highScore
    /\ recorded' = UICall("clearPersistentData", recorded.max, recorded.n, TRUE,
                            recorded.failed, FALSE, 0)
    /\ UNCHANGED gameOverScreen
    /\ UNCHANGED <<dmVars, gridVars, snakeVars, engineVars, call>>

\* uiManager.resetHighScore()
resetHighScore ==
    /\ highScore' = 0
    /\ \E wrote \in BOOLEAN :
          storage' = IF wrote THEN [storage EXCEPT !.snakeHighScore = Digits(0)]
                     ELSE storage
    /\ recorded' = UICall("resetHighScore", recorded.max, recorded.n, TRUE,
                            recorded.failed, FALSE, 0)
    /\ UNCHANGED gameOverScreen
    /\ UNCHANGED <<dmVars, gridVars, snakeVars, engineVars, call>>

\* uiManager.getHighScore()
getHighScore ==
    /\ recorded' = UICall("getHighScore", recorded.max, recorded.n, recorded.reset,
                            recorded.failed, recorded.fresh, highScore)
    /\ UNCHANGED <<highScore, gameOverScreen, storage>>
    /\ UNCHANGED <<dmVars, gridVars, snakeVars, engineVars, call>>

NextUI ==
    \/ UIManager_constructor
    \/ UIManager_init
    \/ showGameOver
    \/ CallUpdatePersistentStats
    \/ getPersistentStats
    \/ clearPersistentData
    \/ resetHighScore
    \/ getHighScore

SpecUI == InitUI /\ [][NextUI]_vars

(***************************************************************************)
(*                    Properties of the DifficultyManager                  *)
(***************************************************************************)

\* C1: in every state reachable through construction from any stored
\* snapshot, initializeGame, recordFoodCollection, recordGameEnd, setSpeed
\* and resetDifficulty, minSpeed <= currentSpeed <= maxSpeed.
C1_SpeedWithinBounds == minSpeed <= currentSpeed /\ currentSpeed <= maxSpeed

\* A food collection that hit the lower clamp: 60 - 15 was cut to minSpeed.
C1_Witness ==
    /\ trail # <<>>
    /\ trail[Len(trail)].op = "food"
    /\ trail[Len(trail)].speed = minSpeed + 10
    /\ currentSpeed = minSpeed

\* The last three triggers were recordFoodCollection calls, nothing between them.
ThreeFoods == Len(trail) >= 3 /\ trail[Len(trail)].op = "food"
BeforeThreeFoods == trail[Len(trail) - 2]

\* C8 as stated: three consecutive recordFoodCollection calls from any
\* reachable state lower currentSpeed by exactly 15 ms (unless it already was
\* minSpeed) and leave consecutiveSuccesses at 0.
C8_AsStated ==
    ThreeFoods =>
        /\ currentSpeed = IF BeforeThreeFoods.speed = minSpeed THEN minSpeed
                          ELSE BeforeThreeFoods.speed - speedAdjustmentAmount
        /\ consecutiveSuccesses = 0

\* C8 amended: three consecutive recordFoodCollection calls lower currentSpeed
\* by exactly one step clamped to minSpeed, and leave consecutiveSuccesses at
\* the value it had before them (2 when it had been loaded as 3), hence at 0
\* exactly when it was 0 before the three calls.
C8_ThreeFoodsOneStep ==
    ThreeFoods =>
        /\ currentSpeed = Max(minSpeed, BeforeThreeFoods.speed - speedAdjustmentAmount)
        /\ consecutiveSuccesses = IF BeforeThreeFoods.cs < speedIncreaseThreshold
                                  THEN BeforeThreeFoods.cs ELSE 2
        /\ (BeforeThreeFoods.cs = 0 <=> consecutiveSuccesses = 0)

\* The scenario of the specification: 150 ms, three goals, 135 ms.
C8_Witness ==
    /\ ThreeFoods
    /\ BeforeThreeFoods.speed = baseSpeed
    /\ BeforeThreeFoods.cs = 0
    /\ currentSpeed = 135
    /\ consecutiveSuccesses = 0

\* The last two triggers were recordGameEnd calls with score < 50, the first
\* of them on an empty history with both counters at 0.
TwoLowEnds ==
    /\ Len(trail) >= 2
    /\ trail[Len(trail)].op = "end"
    /\ trail[Len(trail) - 1].hlen = 0
    /\ trail[Len(trail) - 1].cs = 0
    /\ trail[Len(trail) - 1].rd = 0
    /\ trail[Len(trail) - 1].score < LowScore
    /\ trail[Len(trail)].score < LowScore
BeforeTwoEnds == trail[Len(trail) - 1]

\* C9 as stated: the two calls leave currentSpeed exactly 15 ms above its
\* starting value, the first call changing nothing.
C9_AsStated ==
    TwoLowEnds =>
        /\ trail[Len(trail)].speed = BeforeTwoEnds.speed
        /\ currentSpeed = BeforeTwoEnds.speed + speedAdjustmentAmount

\* C9 amended: the first call changes no speed and the second raises it by one
\* step clamped to maxSpeed.
C9_TwoLowEndsOneStep ==
    TwoLowEnds =>
        /\ trail[Len(trail)].speed = BeforeTwoEnds.speed
        /\ currentSpeed = Min(maxSpeed, BeforeTwoEnds.speed + speedAdjustmentAmount)

\* Two low-score runs from the base speed: 150 ms becomes 165 ms.
C9_Witness ==
    /\ TwoLowEnds
    /\ BeforeTwoEnds.speed = baseSpeed
    /\ currentSpeed = baseSpeed + speedAdjustmentAmount

(***************************************************************************)
(*                    Properties of the PathfindingEngine                  *)
(***************************************************************************)

\* Reference definitions, independent of the search.
\* The in-bounds non-obstacle cells one unit orthogonal move away from a
\* frontier, not reached before.
NewlyReached(frontier, reached, obstacles) ==
    {c \in UNION {{<<b[1] + 1, b[2]>>, <<b[1] - 1, b[2]>>,
                   <<b[1], b[2] + 1>>, <<b[1], b[2] - 1>>} : b \in frontier} :
        isValidPosition(c) /\ c \notin obstacles /\ c \notin reached}

\* The least number of moves to target, given the cells exactly k moves away
\* (frontier) and all cells at most k moves away (reached); -1 if there is none.
RECURSIVE MovesTo(_, _, _, _, _)
MovesTo(frontier, reached, target, obstacles, k) ==
    IF target \in frontier THEN k
    ELSE CHOOSE d \in {IF new = {} THEN -1
                       ELSE MovesTo(new, reached \cup new, target, obstacles, k + 1) :
                       new \in {NewlyReached(frontier, reached, obstacles)}} : TRUE

\* Breadth-first distance from start to target; -1 when target is an obstacle
\* or no sequence of moves connects them.
ShortestMoves(start, target, obstacles) ==
    IF target \in obstacles THEN -1
    ELSE MovesTo({start}, {start}, target, obstacles, 0)

FindPathReturned == pfOut.op = "findPath"
InputsInBounds == isValidPosition(pfIn.start) /\ isValidPosition(pfIn.target)
UnitStep(a, b) == Abs(a[1] - b[1]) + Abs(a[2] - b[2]) = 1

\* C2: whenever the goal is reachable from the start through non-obstacle
\* cells, findPath returns a path with the minimum number of cells (shortest
\* distance + 1); on an obstacle-free board that is ManhattanDistance + 1.
C2_PathIsShortest ==
    (FindPathReturned /\ InputsInBounds)
    => \A d \in {ShortestMoves(pfIn.start, pfIn.target, pfIn.obstacles)} :
          d >= 0 =>
            /\ pfOut.result.found
            /\ Len(pfOut.result.path) = d + 1
            /\ pfIn.obstacles = {} =>
                 Len(pfOut.result.path)
                   = Abs(pfIn.start[1] - pfIn.target[1])
                     + Abs(pfIn.start[2] - pfIn.target[2]) + 1

\* A returned path that had to go around obstacles: longer than the Manhattan
\* distance allows.
C2_Witness ==
    /\ FindPathReturned
    /\ pfOut.result.found
    /\ Len(pfOut.result.path)
         > Abs(pfIn.start[1] - pfIn.target[1]) + Abs(pfIn.start[2] - pfIn.target[2]) + 1

\* C3: every returned path starts at start, ends at goal, moves one unit on
\* exactly one axis per step, stays in bounds and touches no obstacle after
\* index 0.
C3_PathWellFormed ==
    (FindPathReturned /\ pfOut.result.found)
    => LET path == pfOut.result.path
       IN /\ Len(path) >= 1
          /\ path[1] = pfIn.start
          /\ path[Len(path)] = pfIn.target
          /\ \A i \in 1 .. Len(path) - 1 : UnitStep(path[i], path[i + 1])
          /\ \A i \in 1 .. Len(path) : isValidPosition(path[i])
          /\ \A i \in 2 .. Len(path) : path[i] \notin pfIn.obstacles

\* A returned path of at least four cells on a board with obstacles, one of
\* them next to the path.
C3_Witness ==
    /\ FindPathReturned
    /\ pfOut.result.found
    /\ Len(pfOut.result.path) >= 4
    /\ \E o \in pfIn.obstacles : \E i \in 1 .. Len(pfOut.result.path) :
          UnitStep(o, pfOut.result.path[i])

\* C4: findPath returns NotFound exactly when start or goal is out of bounds,
\* the goal is an obstacle, or no sequence of moves connects start to goal.
C4_NotFoundExactly ==
    FindPathReturned =>
        (pfOut.result.found <=>
            /\ InputsInBounds
            /\ ShortestMoves(pfIn.start, pfIn.target, pfIn.obstacles) >= 0)

\* NotFound for in-bounds endpoints and a free goal: obstacles cut it off.
C4_Witness ==
    /\ FindPathReturned
    /\ ~pfOut.result.found
    /\ InputsInBounds
    /\ pfIn.target \notin pfIn.obstacles

FallbackReturned == pfOut.op = "fallback"
SafeNeighbours(position, obstacles) ==
    {c \in Cells \ obstacles : UnitStep(c, position)}

\* C5: getFallbackSuggestions returns exactly one candidate for each in-bounds
\* non-obstacle neighbour of position, positioned on that neighbour in the
\* direction that leads to it, and no other candidate; the list is empty
\* exactly when all four neighbours are blocked.
C5_CandidatesAreSafeNeighbours ==
    FallbackReturned =>
        LET moves == pfOut.moves
            safe == SafeNeighbours(pfIn.start, pfIn.obstacles)
        IN /\ \A c \in safe :
                Cardinality({i \in 1 .. Len(moves) : moves[i].position = c}) = 1
           /\ \A i \in 1 .. Len(moves) :
                /\ moves[i].position \in safe
                /\ moves[i].position = getMovePosition(pfIn.start, moves[i].direction)
           /\ Len(moves) = Cardinality(safe)
           /\ (moves = <<>> <=> safe = {})

\* An agent on the board with two in-bounds neighbours, both of them obstacles.
C5_Witness ==
    /\ FallbackReturned
    /\ pfOut.moves = <<>>
    /\ isValidPosition(pfIn.start)
    /\ Cardinality({c \in pfIn.obstacles : UnitStep(c, pfIn.start)}) = 2

(***************************************************************************)
(*                     Properties of the DangerPredictor                   *)
(***************************************************************************)

Analyzed == dpOut.op = "analyze"
ZoneIndexes == 1 .. Len(dangerZones)
NoEscape(z) == countEscapeRoutes(dangerZones[z].position, BodyCells(dpIn.body)) = 0

\* C6: every DangerZone left by analyze, head-neighbour zone or corridor-trap
\* zone, has a severity in 0..100.
C6_SeverityInRange ==
    \A z \in ZoneIndexes : dangerZones[z].level >= 0 /\ dangerZones[z].level <= 100

\* A head-neighbour zone whose factors add up to more than 100.
C6_Witness ==
    /\ Analyzed
    /\ \E z \in ZoneIndexes :
          /\ dangerZones[z].direction # "trap"
          /\ DangerSum(dangerZones[z].position, dpIn.body, dpIn.food) > 100

\* C7 as stated: every zone analyze leaves on a cell with zero escape routes
\* has severity exactly 100, whichever scan created it.
C7_AsStated ==
    \A z \in ZoneIndexes : NoEscape(z) => dangerZones[z].level = 100

\* C7 amended: every zone created by the head-neighbour scoring on a cell with
\* zero escape routes has severity exactly 100; a zone created by the
\* corridor-trap scan has severity 40, also on a cell with zero escape routes.
C7_DeadEndNeighbourIs100 ==
    \A z \in ZoneIndexes :
        /\ (dangerZones[z].direction # "trap" /\ NoEscape(z))
              => dangerZones[z].level = 100
        /\ dangerZones[z].direction = "trap" => dangerZones[z].level = TrapLevel

\* A head-neighbour zone on a dead-end cell that only the "no escape" factor
\* takes to 100.
C7_Witness ==
    /\ Analyzed
    /\ \E z \in ZoneIndexes :
          /\ dangerZones[z].direction # "trap"
          /\ NoEscape(z)
          /\ dangerZones[z].level = 100
          /\ DangerSum(dangerZones[z].position, dpIn.body, dpIn.food) < 200

SafestReturned == dpOut.op = "safest"
\* The severity recorded for a direction, 0 when no zone is recorded for it.
Recorded(dir) ==
    IF \E z \in ZoneIndexes : dangerZones[z].direction = dir
    THEN (CHOOSE l \in {dangerZones[z].level : z \in ZoneIndexes} :
             \E z \in ZoneIndexes : /\ dangerZones[z].direction = dir
                                    /\ dangerZones[z].level = l
                                    /\ \A y \in 1 .. z - 1 : dangerZones[y].direction # dir)
    ELSE 0
BoxedIn ==
    \A i \in 1 .. 4 : \/ ~isValidPosition(Around(dpIn.head)[i])
                      \/ Around(dpIn.head)[i] \in BodyCells(dpIn.body)

\* C10: getSafestDirection returns the first direction, in the order up, down,
\* left, right, whose recorded severity is minimal (0 when no zone is recorded
\* for it), together with that severity; boxed in on all four sides it
\* returns dangerLevel 0.
C10_SafestIsFirstMinimum ==
    SafestReturned =>
        /\ \E i \in 1 .. 4 :
              /\ dpOut.result.direction = Directions[i]
              /\ dpOut.result.dangerLevel = Recorded(Directions[i])
              /\ \A j \in 1 .. 4 : Recorded(Directions[j]) >= Recorded(Directions[i])
              /\ \A j \in 1 .. i - 1 : Recorded(Directions[j]) > Recorded(Directions[i])
        /\ BoxedIn => dpOut.result.dangerLevel = 0

\* Four recorded zones, the least severe of them not the first and tied with
\* a later one.
C10_Witness ==
    /\ SafestReturned
    /\ dpOut.result.direction # "up"
    /\ dpOut.result.dangerLevel > 0
    /\ \E j \in 1 .. 4 : /\ Directions[j] # dpOut.result.direction
                         /\ Recorded(Directions[j]) = dpOut.result.dangerLevel

(***************************************************************************)
(*                         Properties of the Snake                         *)
(***************************************************************************)

\* The last two calls were changeDirection(d) and then move(), on a live
\* snake whose direction and nextDirection were both d0.
ChangedThenMoved ==
    /\ Len(snakeCalls) = 2
    /\ snakeCalls[1].before.alive
    /\ snakeCalls[1].before.direction = snakeCalls[1].before.nextDirection

\* C11: changeDirection(d) followed by move() moves the head exactly one
\* cell in direction d when d is not the opposite of d0, and one cell in
\* direction d0 when it is; the move leaves the body length unchanged.
C11_RequestedDirectionMapping ==
    ChangedThenMoved =>
        LET s0 == snakeCalls[1].before
            d == snakeCalls[1].arg
            d0 == s0.direction
            expected == IF (d0 = "up" /\ d = "down") \/ (d0 = "down" /\ d = "up")
                           \/ (d0 = "left" /\ d = "right") \/ (d0 = "right" /\ d = "left")
                        THEN d0 ELSE d
        IN /\ snake.body[1] = getMovePosition(s0.body[1], expected)
           /\ Len(snake.body) = Len(s0.body)

\* A two-segment snake heading up was asked to go down and moved up.
C11_Witness ==
    /\ ChangedThenMoved
    /\ snakeCalls[1].before.direction = "up"
    /\ snakeCalls[1].arg = "down"
    /\ Len(snake.body) = 2
    /\ snake.direction = "up"
    /\ snake.body[1] = <<snakeCalls[1].before.body[1][1],
                         snakeCalls[1].before.body[1][2] - 1>>

(***************************************************************************)
(*                      Properties of the GameEngine                       *)
(***************************************************************************)

\* C12: whatever key presses, ticks and direct changeDirection calls are
\* interleaved, the direction of a move is never the opposite of the
\* direction of the move before it.
C12_NoImmediateReversal ==
    Len(game.dirs) = 2 =>
        ~ \/ (game.dirs[1] = "up" /\ game.dirs[2] = "down")
          \/ (game.dirs[1] = "down" /\ game.dirs[2] = "up")
          \/ (game.dirs[1] = "left" /\ game.dirs[2] = "right")
          \/ (game.dirs[1] = "right" /\ game.dirs[2] = "left")

\* The snake turned between two moves while the opposite of its direction
\* waits in the queue of the InputManager.
C12_Witness ==
    /\ Len(game.dirs) = 2
    /\ game.dirs[1] # game.dirs[2]
    /\ snake.alive
    /\ Len(directionQueue) > 0
    /\ directionQueue[1] = opposites(snake.direction)

\* C15: the tick in which the head leaves the board or lands on a body
\* segment leaves gameState 'gameOver' and the snake not alive, with
\* recordGameEnd invoked once; recordGameEnd is never invoked twice for a
\* game and the snake never moves after the game ended.
C15_CollisionEndsGameOnce ==
    /\ game.tick = "collision" =>
          gameState = "gameOver" /\ ~snake.alive /\ game.ends = 1
    /\ game.ends <= 1
    /\ ~game.late

\* A tick ended the game because the head, still on the board, landed on a
\* body segment.
C15_Witness ==
    /\ game.tick = "collision"
    /\ snake.body[1][1] \in 0 .. gridWidth - 1
    /\ snake.body[1][2] \in 0 .. gridHeight - 1
    /\ gameState = "gameOver"
    /\ game.ends = 1

\* C16 as stated: after the initial spawn and after every food consumption
\* the food is on the board and on no segment of the snake's body.
C16_AsStated ==
    (game.tick = "food" \/ game.dirs = <<>>) =>
        /\ food[1] \in 0 .. gridWidth - 1
        /\ food[2] \in 0 .. gridHeight - 1
        /\ \A i \in 1 .. Len(snake.body) : snake.body[i] # food

(***************************************************************************)
(*          Properties of the DifficultyManager, call by call              *)
(***************************************************************************)

\* The four fields of the difficulty state as they are now.
InMemory ==
    [speed |-> currentSpeed, hist |-> performanceHistory,
     cs |-> consecutiveSuccesses, rd |-> recentDeaths]

\* The four fields as the last call found them.
FieldsBefore ==
    [speed |-> call.before.speed, hist |-> call.before.hist,
     cs |-> call.before.cs, rd |-> call.before.rd]

\* The snapshot that holds exactly the fields f.
SnapshotOf(f) == Snapshot(Num(f.speed), Arr(f.hist), Num(f.cs), Num(f.rd))

\* The last call was recordGameEnd or an explicit savePerformanceData.
SavedState == call.op \in {"recordGameEnd", "savePerformanceData"}

\* C13 as stated: after every recordGameEnd and every explicit
\* savePerformanceData the snapshot in the store equals the in-memory state,
\* and a DifficultyManager constructed from it starts with the same speed,
\* history and counters.
C13_AsStated ==
    SavedState => /\ store = SnapshotOf(InMemory)
                  /\ Constructed(store) = InMemory

\* C13, amended: after a recordGameEnd or an explicit savePerformanceData
\* whose write succeeded, the snapshot in the store equals the in-memory
\* state and a DifficultyManager constructed from it starts with the same
\* speed, history and consecutiveSuccesses and with recentDeaths capped at
\* speedDecreaseThreshold; when the write failed the store is as it was.
C13_SnapshotRoundTrip ==
    SavedState =>
        IF call.wrote
        THEN /\ store = SnapshotOf(InMemory)
             /\ Constructed(store) =
                    [InMemory EXCEPT !.rd = Min(recentDeaths, speedDecreaseThreshold)]
        ELSE store = call.before.store

\* A game ended over a history of three, its write succeeded, and the
\* snapshot holds the four samples, the raised speed and the reset counters.
C13_Witness ==
    /\ call.op = "recordGameEnd"
    /\ call.wrote
    /\ Len(call.before.hist) = 3
    /\ Len(performanceHistory) = 4
    /\ store = SnapshotOf(InMemory)
    /\ store # call.before.store
    /\ Constructed(store) = InMemory
    /\ currentSpeed = call.before.speed + speedAdjustmentAmount

\* The sum of the scores, and of the survival times, of the last three
\* samples of h (of all of them when there are fewer).
LastThreeScores(h) ==
    LET k == Len(h)
    IN (IF k >= 1 THEN h[k].score ELSE 0) + (IF k >= 2 THEN h[k - 1].score ELSE 0)
       + (IF k >= 3 THEN h[k - 2].score ELSE 0)

LastThreeSurvivals(h) ==
    LET k == Len(h)
    IN (IF k >= 1 THEN h[k].survivalTime ELSE 0)
       + (IF k >= 2 THEN h[k - 1].survivalTime ELSE 0)
       + (IF k >= 3 THEN h[k - 2].survivalTime ELSE 0)

\* The number of samples the averages are taken over.
LastThreeCount(h) == IF Len(h) < 3 THEN Len(h) ELSE 3

\* The run that just ended is classified as struggling: a low average
\* score, a short average survival, or two failures counting this one.
StrugglingRun ==
    \/ LastThreeScores(performanceHistory) < 50 * LastThreeCount(performanceHistory)
    \/ LastThreeSurvivals(performanceHistory) < 10000 * LastThreeCount(performanceHistory)
    \/ call.before.rd + 1 >= 2

\* The run that just ended is classified as performing well: a high average
\* score, a long average survival and quick food collection.
PerformingWellRun ==
    /\ LastThreeScores(performanceHistory) > 100 * LastThreeCount(performanceHistory)
    /\ LastThreeSurvivals(performanceHistory) > 30000 * LastThreeCount(performanceHistory)
    /\ IF foodCollectionTimes.n = 0 THEN TRUE
       ELSE foodCollectionTimes.total < 3000 * foodCollectionTimes.n

\* C17 as stated: when a run ends with at least two samples in the history,
\* is not struggling, performs well and no failure was counted before it,
\* recordGameEnd lowers currentSpeed by one step, clamped to minSpeed.
C17_AsStated ==
    (/\ call.op = "recordGameEnd"
     /\ Len(performanceHistory) >= 2
     /\ ~StrugglingRun
     /\ PerformingWellRun
     /\ call.before.rd = 0)
        => currentSpeed = Max(minSpeed, call.before.speed - speedAdjustmentAmount)

\* C18: when a run ends with at least two samples in the history, it is
\* struggling exactly when recordGameEnd raises currentSpeed by
\* min(15, maxSpeed - currentSpeed) and resets recentDeaths to 0; with fewer
\* than two samples the speed is not adjusted and the failure stays counted.
C18_StrugglingAdjustment ==
    call.op = "recordGameEnd" =>
        IF Len(performanceHistory) >= 2
        THEN StrugglingRun <=>
                 (/\ currentSpeed = call.before.speed
                                        + Min(15, maxSpeed - call.before.speed)
                  /\ recentDeaths = 0)
        ELSE /\ currentSpeed = call.before.speed
             /\ recentDeaths = call.before.rd + 1

\* A run with a low score ended over a history whose three last samples
\* average below 50 while all four average above it: the speed rose by 15.
C18_Witness ==
    /\ call.op = "recordGameEnd"
    /\ Len(performanceHistory) = 4
    /\ performanceHistory[1].score = 150
    /\ LastThreeScores(performanceHistory) = 60
    /\ call.before.rd = 0
    /\ StrugglingRun
    /\ currentSpeed = call.before.speed + 15
    /\ recentDeaths = 0

\* The operations that only read the difficulty state or only touch the store.
ReadOnlyCalls ==
    {"getCurrentSpeed", "getDifficultyLevel", "getPerformanceStats",
     "savePerformanceData", "clearSavedData"}

\* C19 as stated: every operation invoked after construction other than
\* recordFoodCollection and recordGameEnd leaves currentSpeed,
\* consecutiveSuccesses, recentDeaths and the history unchanged.
C19_AsStated ==
    call.op \notin {"constructor", "recordFoodCollection", "recordGameEnd"}
        => InMemory = FieldsBefore

\* C19, amended: the getters, savePerformanceData and clearSavedData leave
\* the four fields unchanged; initializeGame leaves them unchanged except
\* that it sets currentSpeed to baseSpeed when the history is empty;
\* setSpeed changes only currentSpeed; resetDifficulty restores the
\* defaults.
C19_FrameOfOperations ==
    /\ call.op \in ReadOnlyCalls => InMemory = FieldsBefore
    /\ call.op = "initializeGame" =>
           InMemory = [FieldsBefore EXCEPT
                          !.speed = IF Len(call.before.hist) = 0 THEN baseSpeed ELSE @]
    /\ call.op = "setSpeed" =>
           /\ [InMemory EXCEPT !.speed = 0] = [FieldsBefore EXCEPT !.speed = 0]
           /\ minSpeed <= currentSpeed /\ currentSpeed <= maxSpeed
    /\ call.op = "resetDifficulty" =>
           InMemory = [speed |-> baseSpeed, hist |-> <<>>, cs |-> 0, rd |-> 0]

\* initializeGame found a history of two games and a speed other than the
\* base speed, and left the speed alone.
C19_Witness ==
    /\ call.op = "initializeGame"
    /\ Len(call.before.hist) = 2
    /\ call.before.speed # baseSpeed
    /\ InMemory = FieldsBefore

\* C20: the history never holds more than 10 samples; recordGameEnd appends
\* the new sample as the last element, evicts exactly the oldest one when
\* the length would exceed 10, and keeps the others in their order.
C20_HistoryBounded ==
    /\ Len(performanceHistory) <= 10
    /\ call.op = "recordGameEnd" =>
           LET pre == call.before.hist
               k == Len(performanceHistory)
               evicted == IF Len(pre) = 10 THEN 1 ELSE 0
           IN /\ k = Len(pre) + 1 - evicted
              /\ performanceHistory[k] = call.arg
              /\ \A i \in 1 .. k - 1 : performanceHistory[i] = pre[i + evicted]

\* A game ended over a full history of ten distinct samples: the oldest is
\* gone and the new sample is the tenth.
C20_Witness ==
    /\ call.op = "recordGameEnd"
    /\ Len(call.before.hist) = 10
    /\ Len(performanceHistory) = 10
    /\ call.before.hist[1].score = 103
    /\ performanceHistory[1].score = 104
    /\ performanceHistory[9].score = 112
    /\ performanceHistory[10] = call.arg

(***************************************************************************)
(*                       Properties of the UIManager                       *)
(***************************************************************************)

\* C14 as stated, over a storage whose writes succeeded and that was never
\* cleared or reset: a freshly constructed UIManager reports through
\* getHighScore() the maximum score of the games recorded through
\* showGameOver/updatePersistentStats; and no operation other than
\* clearPersistentData and resetHighScore lowers the stored high score.
C14_AsStated ==
    /\ (/\ recorded.op = "getHighScore"
        /\ recorded.fresh
        /\ ~recorded.reset
        /\ ~recorded.failed) => recorded.result = recorded.max
    /\ recorded.op \notin {"clearPersistentData", "resetHighScore"}
           => StoredHighScore(storage) >= recorded.stored

(***************************************************************************)
(*                  Properties of loading and of the level                 *)
(***************************************************************************)

\* The last maxHistoryLength items of a stored array.
LastTen(items) ==
    LET n == Len(items)
        k == IF n < 10 THEN n ELSE 10
    IN [i \in 1 .. k |-> items[n - k + i]]

\* A stored counter is valid: a number that is not negative.
ValidCounter(v) == v.num /\ v.val >= 0

\* A stored speed is valid: a number within [minSpeed, maxSpeed].
ValidSpeed(v) == v.num /\ v.val >= 50 /\ v.val <= 300

NinthsBelow(speed) ==
    CHOOSE k \in 0 .. 9 : k * 250 <= 9 * (300 - speed) /\ 9 * (300 - speed) < (k + 1) * 250

\* C26: getDifficultyLevel returns floor(9 * (maxSpeed - currentSpeed) /
\* (maxSpeed - minSpeed)) + 1 clamped to 1..10: an integer in 1..10 that is 1
\* at maxSpeed, 10 exactly at minSpeed, and not higher for any slower speed.
C26_LevelOfSpeed ==
    call.op = "getDifficultyLevel" =>
        /\ call.result = NinthsBelow(currentSpeed) + 1
        /\ call.result \in 1 .. 10
        /\ currentSpeed = 300 => call.result = 1
        /\ call.result = 10 <=> currentSpeed = 50
        /\ \A slower \in currentSpeed .. 300 : getDifficultyLevel(slower) <= call.result

\* The level was asked for at 135 ms, reached by a speed adjustment, and is 6.
C26_Witness ==
    /\ call.op = "getDifficultyLevel"
    /\ currentSpeed = 135
    /\ call.result = 6

(***************************************************************************)
(*              Properties of the DangerPredictor, call by call            *)
(***************************************************************************)

\* The coordinate v is within 1 cell of an edge of an axis of n cells.
NearEdge(v, n) == v <= 1 \/ v >= n - 2

RECURSIVE Connected(_, _)
Connected(reached, obstacles) ==
    LET more == {c \in Cells \ (reached \cup obstacles) :
                    \E r \in reached : heuristic(c, r) = 1}
    IN IF more = {} THEN reached ELSE Connected(reached \cup more, obstacles)

\* The free cells reachable from start, start included; none when start is
\* an obstacle or off the board.
ReachableFrom(start, obstacles) ==
    IF start \notin Cells \/ start \in obstacles THEN {}
    ELSE Connected({start}, obstacles)

\* C25: floodFillCount(start, obstacles) returns min(100, N), N being the
\* number of in-bounds cells that are no obstacles and are 4-connected to
\* start, start included; it returns 0 when start is an obstacle or out of
\* bounds.
C25_FloodFillCount ==
    dpOut.op = "floodFillCount" =>
        \A n \in {Cardinality(ReachableFrom(dpOut.start, BodyCells(dpIn.body)))} :
            /\ dpOut.result = IF n > 100 THEN 100 ELSE n
            /\ (dpOut.start \notin Cells \/ dpOut.start \in BodyCells(dpIn.body))
                   => dpOut.result = 0

\* The fill stopped at 100 on the empty large board, which has more cells.
C25_Witness ==
    /\ dpOut.op = "floodFillCount"
    /\ boardWidth * boardHeight > 100
    /\ dpIn.body = <<>>
    /\ dpOut.start \in Cells
    /\ dpOut.result = 100

\* The free in-bounds neighbours of a cell.
EscapeRoutes(c, snakeBody) ==
    {n \in Cells \ BodyCells(snakeBody) : heuristic(n, c) = 1}

\* The cells 2, 3 or 4 cells from the head along the x or the y axis.
Ahead(snakeHead) ==
    {c \in Cells : \/ c[2] = snakeHead[2] /\ Abs(c[1] - snakeHead[1]) \in 2 .. 4
                   \/ c[1] = snakeHead[1] /\ Abs(c[2] - snakeHead[2]) \in 2 .. 4}

\* The indices of the corridor-trap zones and of the other zones.
TrapZones == {i \in 1 .. Len(dangerZones) : dangerZones[i].direction = "trap"}
NeighbourZoneIndices == (1 .. Len(dangerZones)) \ TrapZones

\* C23: after analyze the corridor-trap zones, all of severity 40, are at
\* exactly the in-bounds cells 2, 3 or 4 cells from the head along an axis
\* that have at most 1 escape route and hold no zone of a neighbour; the
\* zones of the neighbours are as they were recorded, and no two zones share
\* a position.
C23_CorridorTraps ==
    dpOut.op = "analyze" =>
        /\ {dangerZones[i].position : i \in TrapZones}
               = {c \in Ahead(dpIn.head) :
                     /\ Cardinality(EscapeRoutes(c, dpIn.body)) <= 1
                     /\ \A i \in NeighbourZoneIndices : dangerZones[i].position # c}
        /\ \A i \in TrapZones : dangerZones[i].level = 40
        /\ \A i \in NeighbourZoneIndices :
               /\ i <= Len(NeighbourZones(1, dpIn.head, dpIn.body, dpIn.food))
               /\ dangerZones[i] = NeighbourZones(1, dpIn.head, dpIn.body, dpIn.food)[i]
        /\ \A i, j \in 1 .. Len(dangerZones) :
               dangerZones[i].position = dangerZones[j].position => i = j

\* In the corridor, with the head at one end and a body segment two cells
\* ahead, the cells 3 and 4 cells ahead are trap zones and the cell 2 ahead
\* is not.
C23_Witness ==
    /\ dpOut.op = "analyze"
    /\ boardWidth = 1 /\ boardHeight >= 5
    /\ dpIn.head = <<0, 0>>
    /\ dpIn.body = <<<<0, 2>>>>
    /\ \E i \in TrapZones : dangerZones[i].position = <<0, 3>>
    /\ \E i \in TrapZones : dangerZones[i].position = <<0, 4>>
    /\ \A i \in TrapZones : dangerZones[i].position # <<0, 2>>

\* C28 as stated, on boards at least 3 cells wide and high: when a
\* neighbour of the head is in-bounds and not occupied
\* by the body, the direction getSafestDirection returns right after
\* analyze leads to an in-bounds cell that the body does not occupy.
C28_AsStated ==
    (/\ dpOut.op = "safest"
     /\ dangerZones = analyze(TRUE, dpIn.head, dpIn.body, dpIn.food)
     /\ boardWidth >= 3 /\ boardHeight >= 3
     /\ EscapeRoutes(dpIn.head, dpIn.body) # {})
        => getMovePosition(dpIn.head, dpOut.result.direction)
               \in Cells \ BodyCells(dpIn.body)

(***************************************************************************)
(*          Further properties of the PathfindingEngine                    *)
(***************************************************************************)

\* The iterations of the last findPath call.
Steps == pfOut.result.steps

\* The first iteration whose open set holds the node, and the node's place
\* in that open set: the moment of its discovery.
FirstSeen(node) ==
    CHOOSE s \in 1 .. Len(Steps) :
        /\ InSeq(Steps[s].openSet, node)
        /\ \A r \in 1 .. s - 1 : ~InSeq(Steps[r].openSet, node)

PlaceWhenSeen(node) ==
    CHOOSE i \in 1 .. Len(Steps[FirstSeen(node)].openSet) :
        Steps[FirstSeen(node)].openSet[i] = node

DiscoveredBefore(a, b) ==
    \/ FirstSeen(a) < FirstSeen(b)
    \/ FirstSeen(a) = FirstSeen(b) /\ PlaceWhenSeen(a) < PlaceWhenSeen(b)

\* C24: in every iteration of findPath the node expanded has the lowest
\* f = g + h of the open set, and every other open node with the same f was
\* discovered after it; a findPath call with the same board, start, goal
\* and obstacles returns the same path.
C24_LowestFirstDiscovered ==
    pfOut.op = "findPath" =>
        /\ \A s \in 1 .. Len(Steps) :
              LET open == Steps[s].openSet
                  f == Steps[s].fScore
                  current == Steps[s].current
              IN /\ InSeq(open, current)
                 /\ \A i \in 1 .. Len(open) :
                       /\ f[open[i]] >= f[current]
                       /\ (f[open[i]] = f[current] /\ open[i] # current)
                              => DiscoveredBefore(current, open[i])
        /\ findPath(pfIn.start, pfIn.target, pfIn.obstacles).path = pfOut.result.path

\* An iteration found two open nodes with the lowest f and expanded the one
\* discovered first, on the way to a path that was found.
C24_Witness ==
    /\ pfOut.op = "findPath"
    /\ pfOut.result.found
    /\ \E s \in 1 .. Len(Steps) :
          \E i \in 1 .. Len(Steps[s].openSet) :
              /\ Steps[s].openSet[i] # Steps[s].current
              /\ Steps[s].fScore[Steps[s].openSet[i]] = Steps[s].fScore[Steps[s].current]
              /\ DiscoveredBefore(Steps[s].current, Steps[s].openSet[i])

\* C27: the moves getFallbackSuggestions returns are in non-increasing order
\* of score, the score of each being what calculateMoveScore gives for the
\* position the move leads to.
C27_MovesSortedByScore ==
    pfOut.op = "fallback" =>
        /\ \A i \in 1 .. Len(pfOut.moves) - 1 :
              ScoreGeq(pfOut.moves[i].score, pfOut.moves[i + 1].score)
        /\ \A i \in 1 .. Len(pfOut.moves) :
              /\ pfOut.moves[i].position = getMovePosition(pfIn.start, pfOut.moves[i].direction)
              /\ pfOut.moves[i].score = calculateMoveScore(pfOut.moves[i].position,
                                                          pfIn.target, pfIn.obstacles)

\* The move down is listed before the move up, which scores strictly less:
\* the sort changed the order of the directions.
C27_Witness ==
    /\ pfOut.op = "fallback"
    /\ Len(pfOut.moves) >= 2
    /\ pfOut.moves[1].direction = "down"
    /\ pfOut.moves[2].direction = "up"
    /\ ~ScoreGeq(pfOut.moves[2].score, pfOut.moves[1].score)

(***************************************************************************)
(*              Further properties of the GameEngine                       *)
(***************************************************************************)

\* C29: GameEngine.start(), in whatever state it is called, leaves the game
\* running with score 0 (foodCollected is reset and incremented together
\* with the score), a live snake of one segment at the centre of the board
\* and an empty input queue.
C29_AsStated ==
    [][GameEngine_start =>
          /\ gameState' = "running"
          /\ gameScore' = 0
          /\ snake'.alive
          /\ snake'.body = <<<<gridWidth \div 2, gridHeight \div 2>>>>
          /\ directionQueue' = <<>>]_vars

\* C30: after a tick of update() that did not end the game, the
\* currentDirection of the InputManager is the direction of the snake, the
\* direction of the move just made.
C30_AsStated ==
    game.tick \in {"moved", "food"} => currentDirection = snake.direction

====
